---- MODULE Spec2Model ----
(***************************************************************************)
(* Model of build_autograde.py (plags_scripts): the segmenter split_cells,  *)
(* the schema validation of load_exercise, the derived views of Exercise,  *)
(* the generators and the source loader, as state machines.                *)
(*                                                                         *)
(* Python strings are modelled as sequences of one-character strings, so   *)
(* that strip, splitlines, startswith, str.format and the regular           *)
(* expressions of the source are computed character by character.  The     *)
(* alphabet of the inputs has "\n" as its only line boundary and " ",      *)
(* "\t", "\n" as its only whitespace.  A character outside ASCII is written  *)
(* as the one element "U+XXXX" of its code point.                          *)
(***************************************************************************)
EXTENDS Integers, Sequences, FiniteSets, TLC

VARIABLES
    seg,        \* split_cells: the loop over the cells of one document
    ld,         \* load_exercise on one document
    rc,         \* Exercise.submission_cell and the single form of one record
    rd,         \* create_redirect_form on one target document
    vr,         \* version renewal of two exercise records
    sm,         \* summarize_testcases on one list of system test cases
    pc,         \* main: the position of the run
    fs,         \* main: the files the run has written, path -> document
    args,       \* main: the command line options
    todo,       \* load_sources: the sorted paths (and directory entries) still to visit
    existing_keys,  \* load_sources: key -> path registry
    disk,       \* main: the disk before the run, [disk, intro]
    loads,      \* load_sources: the calls of master_loader so far, [visit, path]
    cursor,     \* the visit counter of load_sources, then the index in the running loop
    abort,      \* the error that ended the run, if any
    bundles,    \* load_sources: dict dirpath -> list of Exercise records
    separates,  \* load_sources: the Exercise records loaded from single files
    written,    \* every save_as_notebook / file write of the run, in order
    judge_parameters    \* Exercise.judge_parameters, None before load_judge_parameters

vars == <<seg, ld, rc, rd, vr, sm, pc, fs, args, todo, existing_keys, disk, loads,
          cursor, abort, bundles, separates, written, judge_parameters>>

mainVars == <<pc, fs, args, todo, existing_keys, disk, loads, cursor, abort, bundles,
              separates, written, judge_parameters>>

----------------------------------------------------------------------------
(* Python str helpers *)

Whitespace == {" ", "\t", "\n"}

Min(S) == CHOOSE x \in S : \A y \in S : x <= y
Max(S) == CHOOSE x \in S : \A y \in S : x >= y

\* s[i:i+len(p)] == p, with i counted from 1
MatchAt(s, p, i) ==
    /\ i >= 1
    /\ i + Len(p) - 1 <= Len(s)
    /\ \A j \in 1..Len(p) : s[i + j - 1] = p[j]

\* str.startswith
StartsWith(s, p) == MatchAt(s, p, 1)

\* str.endswith
EndsWith(s, p) == Len(p) <= Len(s) /\ MatchAt(s, p, Len(s) - Len(p) + 1)

\* p in s
Contains(s, p) == \E i \in 1..(Len(s) + 1) : MatchAt(s, p, i)

\* str.strip
Strip(s) ==
    LET nz == {i \in 1..Len(s) : s[i] \notin Whitespace}
    IN  IF nz = {} THEN <<>> ELSE SubSeq(s, Min(nz), Max(nz))

\* str.splitlines()
RECURSIVE SplitLines(_)
SplitLines(s) ==
    IF s = <<>> THEN <<>>
    ELSE LET nl == {i \in 1..Len(s) : s[i] = "\n"}
         IN  IF nl = {} THEN <<s>>
             ELSE <<SubSeq(s, 1, Min(nl) - 1)>> \o SplitLines(SubSeq(s, Min(nl) + 1, Len(s)))

\* str.splitlines(True)
RECURSIVE SplitLinesKeepEnds(_)
SplitLinesKeepEnds(s) ==
    IF s = <<>> THEN <<>>
    ELSE LET nl == {i \in 1..Len(s) : s[i] = "\n"}
         IN  IF nl = {} THEN <<s>>
             ELSE <<SubSeq(s, 1, Min(nl))>> \o SplitLinesKeepEnds(SubSeq(s, Min(nl) + 1, Len(s)))

\* sep.join(parts)
RECURSIVE Join(_, _)
Join(parts, sep) ==
    IF parts = <<>> THEN <<>>
    ELSE IF Len(parts) = 1 THEN parts[1]
    ELSE parts[1] \o sep \o Join(Tail(parts), sep)

\* ''.join(parts)
Concat(parts) == Join(parts, <<>>)

\* Python None, told apart from every string (a string's elements are single characters)
None == <<"<None>">>

\* A dict as the sequence of its items [k, v] in insertion order
DictKeys(d) == {d[i].k : i \in 1..Len(d)}
DictGet(d, key) == d[CHOOSE i \in 1..Len(d) : d[i].k = key].v
\* d[key] = value: an existing key keeps its place, a new key goes last
DictSet(d, key, value) ==
    IF key \in DictKeys(d)
    THEN [i \in 1..Len(d) |-> IF d[i].k = key THEN [k |-> key, v |-> value] ELSE d[i]]
    ELSE Append(d, [k |-> key, v |-> value])

----------------------------------------------------------------------------
(* Cells and the segmenter *)

CODE == "code"
MARKDOWN == "markdown"
RAW == "raw"
CellType == {CODE, MARKDOWN, RAW}

Cell(cell_type, source) == [cell_type |-> cell_type, source |-> source]

CONTENT_TYPE_PREFIX == <<"*", "*", "*", "C", "O", "N", "T", "E", "N", "T", "_", "T", "Y", "P", "E", ":">>
STARS == <<"*", "*", "*">>

NoMatch == [found |-> FALSE, name |-> <<>>, end |-> 0]

\* One match of CONTENT_TYPE_REGEX starting at index i: the prefix, a greedy \s*
\* (backtracking to shorter runs), a lazy (.+?) that takes no newline, then ***
ContentTypeMatchAt(s, i) ==
    IF ~MatchAt(s, CONTENT_TYPE_PREFIX, i) THEN NoMatch
    ELSE LET q == i + Len(CONTENT_TYPE_PREFIX)
             wsRun == {w \in 0..(Len(s) - q + 1) : \A k \in q..(q + w - 1) : s[k] \in Whitespace}
             ends(w) == {e \in (q + w + 1)..Len(s) :
                            /\ MatchAt(s, STARS, e)
                            /\ \A k \in (q + w)..(e - 1) : s[k] # "\n"}
             ok == {w \in wsRun : ends(w) # {}}
         IN  IF ok = {} THEN NoMatch
             ELSE LET w == Max(ok)
                      e == Min(ends(w))
                  IN  [found |-> TRUE, name |-> SubSeq(s, q + w, e - 1), end |-> e + Len(STARS)]

\* list(re.finditer(CONTENT_TYPE_REGEX, source)): the captured names, left to right
RECURSIVE ContentTypeMatches(_, _)
ContentTypeMatches(s, pos) ==
    LET starts == {i \in pos..Len(s) : ContentTypeMatchAt(s, i).found}
    IN  IF starts = {} THEN <<>>
        ELSE LET m == ContentTypeMatchAt(s, Min(starts))
             IN  <<m.name>> \o ContentTypeMatches(s, m.end)

\* The loop state of split_cells
SplitInit == [current_key |-> None, cells |-> <<>>, results |-> <<>>, failed |-> FALSE]

\* The mutant of SplitBody that keeps the delimiter cell as the first cell of its group
SplitBodyKeepsDelimiter(st, cell) ==
    IF Strip(cell.source) = <<>> THEN st
    ELSE IF cell.cell_type \in {CODE, RAW}
    THEN IF st.current_key = None THEN [st EXCEPT !.failed = TRUE]
         ELSE [st EXCEPT !.cells = Append(@, cell)]
    ELSE LET matches == ContentTypeMatches(cell.source, 1)
         IN  IF Len(matches) = 0
             THEN IF st.current_key = None THEN [st EXCEPT !.failed = TRUE]
                  ELSE [st EXCEPT !.cells = Append(@, cell)]
             ELSE IF Len(matches) # 1 THEN [st EXCEPT !.failed = TRUE]
             ELSE [current_key |-> matches[1],
                   cells |-> <<cell>>,
                   results |-> IF st.current_key # None
                               THEN DictSet(st.results, st.current_key, st.cells)
                               ELSE st.results,
                   failed |-> FALSE]

\* One iteration of the for loop of split_cells
SplitBody(st, cell) ==
    IF Strip(cell.source) = <<>> THEN st
    ELSE IF cell.cell_type \in {CODE, RAW}
    THEN IF st.current_key = None THEN [st EXCEPT !.failed = TRUE]
         ELSE [st EXCEPT !.cells = Append(@, cell)]
    ELSE IF cell.cell_type # MARKDOWN THEN [st EXCEPT !.failed = TRUE]
    ELSE LET matches == ContentTypeMatches(cell.source, 1)
         IN  IF Len(matches) = 0
             THEN IF st.current_key = None THEN [st EXCEPT !.failed = TRUE]
                  ELSE [st EXCEPT !.cells = Append(@, cell)]
             ELSE IF Len(matches) # 1 THEN [st EXCEPT !.failed = TRUE]
             ELSE [current_key |-> matches[1],
                   cells |-> IF st.current_key # None THEN <<>> ELSE st.cells,
                   results |-> IF st.current_key # None
                               THEN DictSet(st.results, st.current_key, st.cells)
                               ELSE st.results,
                   failed |-> FALSE]

\* The mutant of SplitFlush that keeps the group an earlier declaration of the key left
SplitFlushKeepsFirst(st) ==
    IF st.current_key \in DictKeys(st.results) THEN st.results
    ELSE DictSet(st.results, st.current_key, st.cells)

\* The statement after the loop: results[current_key] = cells
SplitFlush(st) == DictSet(st.results, st.current_key, st.cells)

\* split_cells as a function: [ok, results]
RECURSIVE SplitLoop(_, _, _)
SplitLoop(st, raw_cells, i) ==
    IF st.failed THEN [ok |-> FALSE, results |-> <<>>]
    ELSE IF i > Len(raw_cells) THEN [ok |-> TRUE, results |-> SplitFlush(st)]
    ELSE SplitLoop(SplitBody(st, raw_cells[i]), raw_cells, i + 1)

split_cells(raw_cells) == SplitLoop(SplitInit, raw_cells, 1)

----------------------------------------------------------------------------
(* SpecSplit: split_cells run cell by cell over every document of at most
   MaxCells cells drawn from SegPalette *)

MaxCells == 4

SegPalette ==
    { Cell(MARKDOWN, <<"*", "*", "*", "C", "O", "N", "T", "E", "N", "T", "_", "T", "Y", "P", "E", ":", " ", "A", "*", "*", "*">>),
      Cell(MARKDOWN, <<"x", "\n", "*", "*", "*", "C", "O", "N", "T", "E", "N", "T", "_", "T", "Y", "P", "E", ":", "B", "*", "*", "*">>),
      Cell(MARKDOWN, <<"*", "*", "*", "C", "O", "N", "T", "E", "N", "T", "_", "T", "Y", "P", "E", ":", "A", "*", "*", "*", "*", "*", "*", "C", "O", "N", "T", "E", "N", "T", "_", "T", "Y", "P", "E", ":", "B", "*", "*", "*">>),
      Cell(MARKDOWN, <<"#", " ", "T">>),
      Cell(MARKDOWN, <<" ", "\n">>),
      Cell(CODE, <<"p", "a", "s", "s">>),
      Cell(CODE, <<"*", "*", "*", "C", "O", "N", "T", "E", "N", "T", "_", "T", "Y", "P", "E", ":", "A", "*", "*", "*">>),
      Cell(RAW, <<"r">>) }

SegDocuments == UNION {[1..n -> SegPalette] : n \in 0..MaxCells}

SegIdle == [raw_cells |-> <<>>, i |-> 0, st |-> SplitInit, status |-> "idle", results |-> <<>>]

\* for cell_type, source in ...: one iteration
SegStep ==
    /\ seg.status = "loop"
    /\ seg.i <= Len(seg.raw_cells)
    /\ LET st2 == SplitBody(seg.st, seg.raw_cells[seg.i])
       IN  seg' = [seg EXCEPT !.st = st2, !.i = @ + 1,
                              !.status = IF st2.failed THEN "failed" ELSE "loop"]
    /\ UNCHANGED <<ld, rc, rd, vr, sm, mainVars>>

\* the end of the loop: the last flush and the return
SegReturn ==
    /\ seg.status = "loop"
    /\ seg.i > Len(seg.raw_cells)
    /\ seg' = [seg EXCEPT !.status = "returned", !.results = SplitFlush(seg.st)]
    /\ UNCHANGED <<ld, rc, rd, vr, sm, mainVars>>

----------------------------------------------------------------------------
(* Python names that exec knows: the keywords and the builtins *)

\* keyword.kwlist
PyKeywords ==
    {<<"F", "a", "l", "s", "e">>, <<"N", "o", "n", "e">>, <<"T", "r", "u", "e">>, <<"a", "n", "d">>, <<"a", "s">>, <<"a", "s", "s", "e", "r", "t">>, <<"a", "s", "y", "n", "c">>, <<"a", "w", "a", "i", "t">>,
     <<"b", "r", "e", "a", "k">>, <<"c", "l", "a", "s", "s">>, <<"c", "o", "n", "t", "i", "n", "u", "e">>, <<"d", "e", "f">>, <<"d", "e", "l">>, <<"e", "l", "i", "f">>, <<"e", "l", "s", "e">>,
     <<"e", "x", "c", "e", "p", "t">>, <<"f", "i", "n", "a", "l", "l", "y">>, <<"f", "o", "r">>, <<"f", "r", "o", "m">>, <<"g", "l", "o", "b", "a", "l">>, <<"i", "f">>, <<"i", "m", "p", "o", "r", "t">>, <<"i", "n">>,
     <<"i", "s">>, <<"l", "a", "m", "b", "d", "a">>, <<"n", "o", "n", "l", "o", "c", "a", "l">>, <<"n", "o", "t">>, <<"o", "r">>, <<"p", "a", "s", "s">>, <<"r", "a", "i", "s", "e">>, <<"r", "e", "t", "u", "r", "n">>,
     <<"t", "r", "y">>, <<"w", "h", "i", "l", "e">>, <<"w", "i", "t", "h">>, <<"y", "i", "e", "l", "d">>}

\* the names of the module builtins, which exec puts under __builtins__: those every
\* interpreter from 3.7 on has (a name with "_" in front is left open)
PyBuiltins ==
    {<<"A", "r", "i", "t", "h", "m", "e", "t", "i", "c", "E", "r", "r", "o", "r">>, <<"A", "s", "s", "e", "r", "t", "i", "o", "n", "E", "r", "r", "o", "r">>, <<"A", "t", "t", "r", "i", "b", "u", "t", "e", "E", "r", "r", "o", "r">>, <<"B", "a", "s", "e", "E", "x", "c", "e", "p", "t", "i", "o", "n">>,
     <<"B", "l", "o", "c", "k", "i", "n", "g", "I", "O", "E", "r", "r", "o", "r">>, <<"B", "r", "o", "k", "e", "n", "P", "i", "p", "e", "E", "r", "r", "o", "r">>, <<"B", "u", "f", "f", "e", "r", "E", "r", "r", "o", "r">>, <<"B", "y", "t", "e", "s", "W", "a", "r", "n", "i", "n", "g">>,
     <<"C", "h", "i", "l", "d", "P", "r", "o", "c", "e", "s", "s", "E", "r", "r", "o", "r">>, <<"C", "o", "n", "n", "e", "c", "t", "i", "o", "n", "A", "b", "o", "r", "t", "e", "d", "E", "r", "r", "o", "r">>, <<"C", "o", "n", "n", "e", "c", "t", "i", "o", "n", "E", "r", "r", "o", "r">>,
     <<"C", "o", "n", "n", "e", "c", "t", "i", "o", "n", "R", "e", "f", "u", "s", "e", "d", "E", "r", "r", "o", "r">>, <<"C", "o", "n", "n", "e", "c", "t", "i", "o", "n", "R", "e", "s", "e", "t", "E", "r", "r", "o", "r">>, <<"D", "e", "p", "r", "e", "c", "a", "t", "i", "o", "n", "W", "a", "r", "n", "i", "n", "g">>,
     <<"E", "O", "F", "E", "r", "r", "o", "r">>, <<"E", "l", "l", "i", "p", "s", "i", "s">>, <<"E", "n", "v", "i", "r", "o", "n", "m", "e", "n", "t", "E", "r", "r", "o", "r">>, <<"E", "x", "c", "e", "p", "t", "i", "o", "n">>, <<"F", "a", "l", "s", "e">>,
     <<"F", "i", "l", "e", "E", "x", "i", "s", "t", "s", "E", "r", "r", "o", "r">>, <<"F", "i", "l", "e", "N", "o", "t", "F", "o", "u", "n", "d", "E", "r", "r", "o", "r">>, <<"F", "l", "o", "a", "t", "i", "n", "g", "P", "o", "i", "n", "t", "E", "r", "r", "o", "r">>, <<"F", "u", "t", "u", "r", "e", "W", "a", "r", "n", "i", "n", "g">>,
     <<"G", "e", "n", "e", "r", "a", "t", "o", "r", "E", "x", "i", "t">>, <<"I", "O", "E", "r", "r", "o", "r">>, <<"I", "m", "p", "o", "r", "t", "E", "r", "r", "o", "r">>, <<"I", "m", "p", "o", "r", "t", "W", "a", "r", "n", "i", "n", "g">>,
     <<"I", "n", "d", "e", "n", "t", "a", "t", "i", "o", "n", "E", "r", "r", "o", "r">>, <<"I", "n", "d", "e", "x", "E", "r", "r", "o", "r">>, <<"I", "n", "t", "e", "r", "r", "u", "p", "t", "e", "d", "E", "r", "r", "o", "r">>, <<"I", "s", "A", "D", "i", "r", "e", "c", "t", "o", "r", "y", "E", "r", "r", "o", "r">>,
     <<"K", "e", "y", "E", "r", "r", "o", "r">>, <<"K", "e", "y", "b", "o", "a", "r", "d", "I", "n", "t", "e", "r", "r", "u", "p", "t">>, <<"L", "o", "o", "k", "u", "p", "E", "r", "r", "o", "r">>, <<"M", "e", "m", "o", "r", "y", "E", "r", "r", "o", "r">>,
     <<"M", "o", "d", "u", "l", "e", "N", "o", "t", "F", "o", "u", "n", "d", "E", "r", "r", "o", "r">>, <<"N", "a", "m", "e", "E", "r", "r", "o", "r">>, <<"N", "o", "n", "e">>, <<"N", "o", "t", "A", "D", "i", "r", "e", "c", "t", "o", "r", "y", "E", "r", "r", "o", "r">>,
     <<"N", "o", "t", "I", "m", "p", "l", "e", "m", "e", "n", "t", "e", "d">>, <<"N", "o", "t", "I", "m", "p", "l", "e", "m", "e", "n", "t", "e", "d", "E", "r", "r", "o", "r">>, <<"O", "S", "E", "r", "r", "o", "r">>, <<"O", "v", "e", "r", "f", "l", "o", "w", "E", "r", "r", "o", "r">>,
     <<"P", "e", "n", "d", "i", "n", "g", "D", "e", "p", "r", "e", "c", "a", "t", "i", "o", "n", "W", "a", "r", "n", "i", "n", "g">>, <<"P", "e", "r", "m", "i", "s", "s", "i", "o", "n", "E", "r", "r", "o", "r">>, <<"P", "r", "o", "c", "e", "s", "s", "L", "o", "o", "k", "u", "p", "E", "r", "r", "o", "r">>,
     <<"R", "e", "c", "u", "r", "s", "i", "o", "n", "E", "r", "r", "o", "r">>, <<"R", "e", "f", "e", "r", "e", "n", "c", "e", "E", "r", "r", "o", "r">>, <<"R", "e", "s", "o", "u", "r", "c", "e", "W", "a", "r", "n", "i", "n", "g">>, <<"R", "u", "n", "t", "i", "m", "e", "E", "r", "r", "o", "r">>,
     <<"R", "u", "n", "t", "i", "m", "e", "W", "a", "r", "n", "i", "n", "g">>, <<"S", "t", "o", "p", "A", "s", "y", "n", "c", "I", "t", "e", "r", "a", "t", "i", "o", "n">>, <<"S", "t", "o", "p", "I", "t", "e", "r", "a", "t", "i", "o", "n">>, <<"S", "y", "n", "t", "a", "x", "E", "r", "r", "o", "r">>,
     <<"S", "y", "n", "t", "a", "x", "W", "a", "r", "n", "i", "n", "g">>, <<"S", "y", "s", "t", "e", "m", "E", "r", "r", "o", "r">>, <<"S", "y", "s", "t", "e", "m", "E", "x", "i", "t">>, <<"T", "a", "b", "E", "r", "r", "o", "r">>, <<"T", "i", "m", "e", "o", "u", "t", "E", "r", "r", "o", "r">>,
     <<"T", "r", "u", "e">>, <<"T", "y", "p", "e", "E", "r", "r", "o", "r">>, <<"U", "n", "b", "o", "u", "n", "d", "L", "o", "c", "a", "l", "E", "r", "r", "o", "r">>, <<"U", "n", "i", "c", "o", "d", "e", "D", "e", "c", "o", "d", "e", "E", "r", "r", "o", "r">>,
     <<"U", "n", "i", "c", "o", "d", "e", "E", "n", "c", "o", "d", "e", "E", "r", "r", "o", "r">>, <<"U", "n", "i", "c", "o", "d", "e", "E", "r", "r", "o", "r">>, <<"U", "n", "i", "c", "o", "d", "e", "T", "r", "a", "n", "s", "l", "a", "t", "e", "E", "r", "r", "o", "r">>,
     <<"U", "n", "i", "c", "o", "d", "e", "W", "a", "r", "n", "i", "n", "g">>, <<"U", "s", "e", "r", "W", "a", "r", "n", "i", "n", "g">>, <<"V", "a", "l", "u", "e", "E", "r", "r", "o", "r">>, <<"W", "a", "r", "n", "i", "n", "g">>,
     <<"Z", "e", "r", "o", "D", "i", "v", "i", "s", "i", "o", "n", "E", "r", "r", "o", "r">>, <<"a", "b", "s">>, <<"a", "l", "l">>, <<"a", "n", "y">>, <<"a", "s", "c", "i", "i">>, <<"b", "i", "n">>, <<"b", "o", "o", "l">>,
     <<"b", "r", "e", "a", "k", "p", "o", "i", "n", "t">>, <<"b", "y", "t", "e", "a", "r", "r", "a", "y">>, <<"b", "y", "t", "e", "s">>, <<"c", "a", "l", "l", "a", "b", "l", "e">>, <<"c", "h", "r">>, <<"c", "l", "a", "s", "s", "m", "e", "t", "h", "o", "d">>,
     <<"c", "o", "m", "p", "i", "l", "e">>, <<"c", "o", "m", "p", "l", "e", "x">>, <<"d", "e", "l", "a", "t", "t", "r">>, <<"d", "i", "c", "t">>, <<"d", "i", "r">>, <<"d", "i", "v", "m", "o", "d">>,
     <<"e", "n", "u", "m", "e", "r", "a", "t", "e">>, <<"e", "v", "a", "l">>, <<"e", "x", "e", "c">>, <<"f", "i", "l", "t", "e", "r">>, <<"f", "l", "o", "a", "t">>, <<"f", "o", "r", "m", "a", "t">>,
     <<"f", "r", "o", "z", "e", "n", "s", "e", "t">>, <<"g", "e", "t", "a", "t", "t", "r">>, <<"g", "l", "o", "b", "a", "l", "s">>, <<"h", "a", "s", "a", "t", "t", "r">>, <<"h", "a", "s", "h">>, <<"h", "e", "x">>, <<"i", "d">>,
     <<"i", "n", "p", "u", "t">>, <<"i", "n", "t">>, <<"i", "s", "i", "n", "s", "t", "a", "n", "c", "e">>, <<"i", "s", "s", "u", "b", "c", "l", "a", "s", "s">>, <<"i", "t", "e", "r">>, <<"l", "e", "n">>, <<"l", "i", "s", "t">>,
     <<"l", "o", "c", "a", "l", "s">>, <<"m", "a", "p">>, <<"m", "a", "x">>, <<"m", "e", "m", "o", "r", "y", "v", "i", "e", "w">>, <<"m", "i", "n">>, <<"n", "e", "x", "t">>, <<"o", "b", "j", "e", "c", "t">>,
     <<"o", "c", "t">>, <<"o", "p", "e", "n">>, <<"o", "r", "d">>, <<"p", "o", "w">>, <<"p", "r", "i", "n", "t">>, <<"p", "r", "o", "p", "e", "r", "t", "y">>, <<"r", "a", "n", "g", "e">>, <<"r", "e", "p", "r">>,
     <<"r", "e", "v", "e", "r", "s", "e", "d">>, <<"r", "o", "u", "n", "d">>, <<"s", "e", "t">>, <<"s", "e", "t", "a", "t", "t", "r">>, <<"s", "l", "i", "c", "e">>, <<"s", "o", "r", "t", "e", "d">>,
     <<"s", "t", "a", "t", "i", "c", "m", "e", "t", "h", "o", "d">>, <<"s", "t", "r">>, <<"s", "u", "m">>, <<"s", "u", "p", "e", "r">>, <<"t", "u", "p", "l", "e">>, <<"t", "y", "p", "e">>, <<"v", "a", "r", "s">>,
     <<"z", "i", "p">>}

\* the names only the builtins of some versions, platforms or start-ups have
PyBuiltinsOfSome ==
    {<<"a", "i", "t", "e", "r">>, <<"a", "n", "e", "x", "t">>, <<"E", "n", "c", "o", "d", "i", "n", "g", "W", "a", "r", "n", "i", "n", "g">>, <<"B", "a", "s", "e", "E", "x", "c", "e", "p", "t", "i", "o", "n", "G", "r", "o", "u", "p">>,
     <<"E", "x", "c", "e", "p", "t", "i", "o", "n", "G", "r", "o", "u", "p">>, <<"e", "x", "i", "t">>, <<"q", "u", "i", "t">>, <<"c", "o", "p", "y", "r", "i", "g", "h", "t">>, <<"c", "r", "e", "d", "i", "t", "s">>, <<"l", "i", "c", "e", "n", "s", "e">>,
     <<"h", "e", "l", "p">>, <<"W", "i", "n", "d", "o", "w", "s", "E", "r", "r", "o", "r">>, <<"P", "y", "t", "h", "o", "n", "F", "i", "n", "a", "l", "i", "z", "a", "t", "i", "o", "n", "E", "r", "r", "o", "r">>}
----------------------------------------------------------------------------
(* The field schema and load_exercise *)

FieldKey ==
    {"WARNING", "CONTENT", "STUDENT_CODE_CELL", "EXPLANATION", "ANSWER_EXAMPLES",
     "STUDENT_TESTS", "SYSTEM_TEST_CASES", "SYSTEM_TEST_CASES_EXECUTE_CELL",
     "SYSTEM_TEST_SETTING"}

\* the member names of FieldKey as Python strings
FieldKeyName ==
    [WARNING |-> <<"W", "A", "R", "N", "I", "N", "G">>,
     CONTENT |-> <<"C", "O", "N", "T", "E", "N", "T">>,
     STUDENT_CODE_CELL |-> <<"S", "T", "U", "D", "E", "N", "T", "_", "C", "O", "D", "E", "_", "C", "E", "L", "L">>,
     EXPLANATION |-> <<"E", "X", "P", "L", "A", "N", "A", "T", "I", "O", "N">>,
     ANSWER_EXAMPLES |-> <<"A", "N", "S", "W", "E", "R", "_", "E", "X", "A", "M", "P", "L", "E", "S">>,
     STUDENT_TESTS |-> <<"S", "T", "U", "D", "E", "N", "T", "_", "T", "E", "S", "T", "S">>,
     SYSTEM_TEST_CASES |-> <<"S", "Y", "S", "T", "E", "M", "_", "T", "E", "S", "T", "_", "C", "A", "S", "E", "S">>,
     SYSTEM_TEST_CASES_EXECUTE_CELL |-> <<"S", "Y", "S", "T", "E", "M", "_", "T", "E", "S", "T", "_", "C", "A", "S", "E", "S", "_", "E", "X", "E", "C", "U", "T", "E", "_", "C", "E", "L", "L">>,
     SYSTEM_TEST_SETTING |-> <<"S", "Y", "S", "T", "E", "M", "_", "T", "E", "S", "T", "_", "S", "E", "T", "T", "I", "N", "G">>]

\* field_key.lower(), the keyword of Exercise the field is stored under
FieldAttr ==
    [WARNING |-> "warning",
     CONTENT |-> "content",
     STUDENT_CODE_CELL |-> "student_code_cell",
     EXPLANATION |-> "explanation",
     ANSWER_EXAMPLES |-> "answer_examples",
     STUDENT_TESTS |-> "student_tests",
     SYSTEM_TEST_CASES |-> "system_test_cases",
     SYSTEM_TEST_CASES_EXECUTE_CELL |-> "system_test_cases_execute_cell",
     SYSTEM_TEST_SETTING |-> "system_test_setting"]

\* FieldKey.<X>.properties
FieldProperties ==
    [WARNING |-> {},
     CONTENT |-> {"LIST", "MARKDOWN_HEADED"},
     STUDENT_CODE_CELL |-> {"SINGLE", "CODE"},
     EXPLANATION |-> {"LIST", "MARKDOWN_HEADED", "OPTIONAL"},
     ANSWER_EXAMPLES |-> {"LIST", "OPTIONAL"},
     STUDENT_TESTS |-> {"LIST", "OPTIONAL"},
     SYSTEM_TEST_CASES |-> {"LIST", "FILE"},
     SYSTEM_TEST_CASES_EXECUTE_CELL |-> {"SINGLE", "CODE"},
     SYSTEM_TEST_SETTING |-> {"SINGLE"}]

\* the fields of the dataclass Exercise, all without a default
ExerciseFields ==
    {"key", "dirpath", "version", "title", "content", "student_code_cell", "explanation",
     "answer_examples", "student_tests", "system_test_cases", "system_test_setting"}

\* getattr(FieldKey, field_key) finds a member
IsFieldKeyName(name) == \E f \in FieldKey : FieldKeyName[f] = name
FieldEnum(name) == CHOOSE f \in FieldKey : FieldKeyName[f] = name

\* the fields load_exercise skips before any validation
SkippedFields == {"WARNING", "SYSTEM_TEST_CASES_EXECUTE_CELL"}

\* The mutant of CardinalityOk without the SINGLE branch
CardinalityOkNoSingle(props, n) ==
    IF ({"OPTIONAL"} \cup {"OPTIONAL"}) \subseteq props THEN TRUE
    ELSE IF "OPTIONAL" \in props THEN n <= 1
    ELSE IF "LIST" \in props THEN n > 0
    ELSE TRUE

\* The if/elif chain on the number of cells of a group
CardinalityOk(props, n) ==
    IF ({"OPTIONAL"} \cup {"OPTIONAL"}) \subseteq props THEN TRUE
    ELSE IF "OPTIONAL" \in props THEN n <= 1
    ELSE IF "LIST" \in props THEN n > 0
    ELSE IF "SINGLE" \in props THEN n = 1
    ELSE TRUE

\* The mutant of CodeOnlyOk that accepts cells of every kind
CodeOnlyOkAlways(props, cells) == TRUE

\* FieldProperty.CODE: all(x.cell_type == CellType.CODE for x in cells)
CodeOnlyOk(props, cells) ==
    "CODE" \in props => \A i \in 1..Len(cells) : cells[i].cell_type = CODE

HASH == "#"
SLASH == "/"

\* the length of the longest prefix of s made of characters of set S
PrefixRun(s, S) == Max({n \in 0..Len(s) : \A k \in 1..n : s[k] \in S})

\* re.fullmatch(r'#+\s+(.*)', line) for a line without newline: [found, group]
HeadingMatch(line) ==
    LET h == PrefixRun(line, {HASH})
        rest == SubSeq(line, h + 1, Len(line))
        w == PrefixRun(rest, Whitespace)
    IN  IF h >= 1 /\ w >= 1 /\ \A k \in 1..Len(line) : line[k] # "\n"
        THEN [found |-> TRUE, group |-> SubSeq(rest, w + 1, Len(rest))]
        ELSE [found |-> FALSE, group |-> <<>>]

\* the first line the heading pattern is matched against
FirstLine(cell) == SplitLines(Strip(cell.source))[1]

\* The MARKDOWN_HEADED block: [ok, title]
HeadingCheck(props, cells) ==
    IF Len(cells) > 0 /\ "MARKDOWN_HEADED" \in props
    THEN IF cells[1].cell_type # MARKDOWN THEN [ok |-> FALSE, title |-> <<>>]
         ELSE LET m == HeadingMatch(FirstLine(cells[1]))
              IN  [ok |-> m.found, title |-> m.group]
    ELSE [ok |-> TRUE, title |-> <<>>]

MaxFileNameLen == 255

\* split_file_code_cell: [ok, file], file = (name, content, cell)
split_file_code_cell(cell) ==
    IF cell.cell_type # CODE THEN [ok |-> FALSE, file |-> <<>>]
    ELSE LET lines == SplitLinesKeepEnds(Strip(cell.source))
             first == Strip(lines[1])
             h == PrefixRun(first, {HASH})
             rest == SubSeq(first, h + 1, Len(first))
             w == PrefixRun(rest, Whitespace)
             name == SubSeq(rest, w + 1, Len(rest))
         IN  IF /\ h >= 1
                /\ w >= 1
                /\ Len(name) \in 1..MaxFileNameLen
                /\ \A k \in 1..Len(name) : name[k] # SLASH
             THEN [ok |-> TRUE,
                   file |-> [name |-> name,
                             content |-> Strip(Concat(Tail(lines))) \o <<"\n">>,
                             cell |-> cell]]
             ELSE [ok |-> FALSE, file |-> <<>>]

\* [split_file_code_cell(x) for x in cells]: [ok, files]
RECURSIVE SplitFileCodeCells(_)
SplitFileCodeCells(cells) ==
    IF cells = <<>> THEN [ok |-> TRUE, files |-> <<>>]
    ELSE LET f == split_file_code_cell(cells[1])
             r == SplitFileCodeCells(Tail(cells))
         IN  IF f.ok /\ r.ok THEN [ok |-> TRUE, files |-> <<f.file>> \o r.files]
             ELSE [ok |-> FALSE, files |-> <<>>]

PASS == <<"p", "a", "s", "s">>

\* exec(source, globals) of load_system_test_setting.  The model decides the programs of
\* this part of Python and leaves every other program open:
\*   program    lines of statements; a blank line or a comment line counts for nothing
\*   line       simple (";" simple)* [";"]   |   def NAME "(" [NAME ("," NAME)* [","]] ")" ":"
\*              followed by simple statements on the line, or by a block of lines of
\*              simple statements, all indented by the same number of spaces
\*   simple     pass | return [expr] | import module ["as" NAME] ("," ...)*
\*              | (NAME "=")* expr
\*   expr       term ("==" term)*
\*   term       ("+" | "-")* atom ("(" [arg ("," arg)* [","]] ")")*
\*   arg        [NAME "="] ("+" | "-")* atom
\*   atom       NAME | int literal | string literal of one line without "\" | None | True | False
\* The body of a def is compiled and not run.  ExecOutcome is "returns" or "raises" where that
\* is certain for every program with this beginning, and "unknown" otherwise: a program
\* outside the grammar, a call of anything but a value that cannot be called or the
\* factory without arguments, an operator on a value of a type the model does not follow,
\* the import of a module build_autograde has not imported itself, a name only some
\* interpreters have, a character outside printable ASCII.
PyBlank == {" ", "\t"}
PyDigits == {<<"0", "1", "2", "3", "4", "5", "6", "7", "8", "9">>[i] : i \in 1..10}
PyHexDigits == PyDigits \cup {<<"a", "b", "c", "d", "e", "f", "A", "B", "C", "D", "E", "F">>[i] : i \in 1..12}
PyNameStart ==
    {<<"_", "a", "b", "c", "d", "e", "f", "g", "h", "i", "j", "k", "l", "m", "n", "o", "p", "q", "r", "s", "t", "u", "v", "w", "x", "y", "z", "A", "B", "C", "D", "E", "F", "G", "H", "I", "J", "K", "L", "M", "N", "O", "P", "Q", "R", "S", "T", "U", "V", "W", "X", "Y", "Z">>[i] : i \in 1..53}
PyQuotes == {"'", "\""}
PyOperators == {"(", ")", ",", ":", ";", "=", ".", "-", "+"}
PY_CONSTANTS == {<<"N", "o", "n", "e">>, <<"T", "r", "u", "e">>, <<"F", "a", "l", "s", "e">>}
\* the characters of a program the model reads: printable ASCII (the backquote, which
\* no program of Python 3 has outside a string or a comment, left out), tab and newline
PyPlainChars ==
    {<<" ", "!", "#", "$", "%", "&", "(", ")", "*", "+", ",", "-", ".", "/", "0", "1", "2", "3", "4", "5", "6", "7", "8", "9", ":", ";", "<", "=", ">", "?", "@", "A", "B", "C", "D", "E", "F", "G", "H", "I", "J", "K", "L", "M", "N", "O", "P", "Q", "R", "S", "T", "U", "V", "W", "X", "Y", "Z">>[i] : i \in 1..57}
        \cup {<<"[", "]", "^", "_", "a", "b", "c", "d", "e", "f", "g", "h", "i", "j", "k", "l", "m", "n", "o", "p", "q", "r", "s", "t", "u", "v", "w", "x", "y", "z", "{", "|", "}", "~">>[i] : i \in 1..34}
        \cup PyQuotes \cup PyBlank \cup {"\n", "\\"}
PY_DEBUG == <<"_", "_", "d", "e", "b", "u", "g", "_", "_">>
PY_BUILTINS == <<"_", "_", "b", "u", "i", "l", "t", "i", "n", "s", "_", "_">>
\* sys.int_info.default_max_str_digits: a longer decimal literal is not compiled
PyMaxStrDigits == 4300
\* the model follows signs and calls nested up to this depth
PyDepthDecided == 20
\* the types whose values compare with == without an exception
PyPlainKinds == {"int", "str", "bool", "none", "function", "module"}
\* the modules build_autograde has imported itself (lines 3-21), which import finds in
\* sys.modules whatever the installation; os.path comes with os
PyRepoModules ==
    {<<"o", "s">>, <<"o", "s", ".", "p", "a", "t", "h">>, <<"r", "e">>, <<"s", "y", "s">>, <<"e", "n", "u", "m">>, <<"s", "h", "u", "t", "i", "l">>, <<"z", "i", "p", "f", "i", "l", "e">>,
     <<"a", "r", "g", "p", "a", "r", "s", "e">>, <<"d", "a", "t", "a", "c", "l", "a", "s", "s", "e", "s">>, <<"c", "o", "l", "l", "e", "c", "t", "i", "o", "n", "s">>, <<"t", "y", "p", "i", "n", "g">>, <<"j", "s", "o", "n">>, <<"h", "a", "s", "h", "l", "i", "b">>,
     <<"l", "o", "g", "g", "i", "n", "g">>, <<"i", "t", "e", "r", "t", "o", "o", "l", "s">>, <<"i", "p", "y", "n", "b", "_", "m", "e", "t", "a", "d", "a", "t", "a">>, <<"i", "p", "y", "n", "b", "_", "u", "t", "i", "l">>, <<"j", "u", "d", "g", "e", "_", "s", "e", "t", "t", "i", "n", "g">>}
\* the globals exec is given (line 142), with the __builtins__ exec adds: name -> type
PyGlobals ==
    [n \in {<<"g", "e", "n", "e", "r", "a", "t", "e", "_", "s", "y", "s", "t", "e", "m", "_", "t", "e", "s", "t", "_", "s", "e", "t", "t", "i", "n", "g">>, PY_BUILTINS} |->
        IF n = PY_BUILTINS THEN "builtin" ELSE "factory"]

\* the last place of the run of elements of S that begins at i (i - 1 without one)
PyRunEnd(s, i, S) == Min({j \in i..(Len(s) + 1) : j = Len(s) + 1 \/ s[j] \notin S}) - 1

\* digits of D with single underscores between them (and one in front when lead)
PyDigitPart(s, D, lead) ==
    /\ s # <<>>
    /\ \A i \in 1..Len(s) : s[i] \in D \cup {"_"}
    /\ s[Len(s)] # "_"
    /\ (lead \/ s[1] # "_")
    /\ \A i \in 1..(Len(s) - 1) : ~(s[i] = "_" /\ s[i + 1] = "_")

\* an int literal: decimal without a zero in front, zeros, or 0x / 0o / 0b digits
PyIsInt(s) ==
    /\ s # <<>>
    /\ Len(s) <= PyMaxStrDigits
    /\ \/ s[1] # "0" /\ PyDigitPart(s, PyDigits, FALSE)
       \/ PyDigitPart(s, {"0"}, FALSE)
       \/ /\ Len(s) > 2
          /\ s[1] = "0"
          /\ \/ s[2] \in {"x", "X"} /\ PyDigitPart(SubSeq(s, 3, Len(s)), PyHexDigits, TRUE)
             \/ s[2] \in {"o", "O"}
                  /\ PyDigitPart(SubSeq(s, 3, Len(s)), {<<"0", "1", "2", "3", "4", "5", "6", "7">>[i] : i \in 1..8}, TRUE)
             \/ s[2] \in {"b", "B"} /\ PyDigitPart(SubSeq(s, 3, Len(s)), {"0", "1"}, TRUE)

\* a token: t is "name", "kw", "num", "str", "op" or "bad", s its text
PyTok(t, s) == [t |-> t, s |-> s]

\* the place of the quote that ends the string literal begun at i, 0 without one
PyStringEnd(line, i) ==
    IF \E k \in (i + 1)..Len(line) : line[k] = line[i]
    THEN Min({k \in (i + 1)..Len(line) : line[k] = line[i]}) ELSE 0

\* the token that begins at place i of a line (no blank, no "#"), as [tok, next]; the
\* token is "bad" where the text is none of the tokens of the grammar (a string with a
\* prefix, of three quotes, with "\" or without end, a number of another form, another
\* operator)
PyTokenAt(line, i) ==
    IF line[i] \in PyNameStart
    THEN LET j == PyRunEnd(line, i, PyNameStart \cup PyDigits)
         IN  IF j < Len(line) /\ line[j + 1] \in PyQuotes
             THEN [tok |-> PyTok("bad", <<>>), next |-> Len(line) + 1]
             ELSE [tok |-> PyTok(IF SubSeq(line, i, j) \in PyKeywords THEN "kw" ELSE "name",
                                 SubSeq(line, i, j)),
                   next |-> j + 1]
    ELSE IF line[i] \in PyDigits
    THEN LET j == PyRunEnd(line, i, PyNameStart \cup PyDigits \cup {"."})
         IN  IF PyIsInt(SubSeq(line, i, j))
             THEN [tok |-> PyTok("num", SubSeq(line, i, j)), next |-> j + 1]
             ELSE [tok |-> PyTok("bad", <<>>), next |-> Len(line) + 1]
    ELSE IF line[i] \in PyQuotes
    THEN LET e == PyStringEnd(line, i)
         IN  IF \/ e = 0
                \/ e = i + 1 /\ e < Len(line) /\ line[e + 1] = line[i]
                \/ \E k \in (i + 1)..(e - 1) : line[k] = "\\"
             THEN [tok |-> PyTok("bad", <<>>), next |-> Len(line) + 1]
             ELSE [tok |-> PyTok("str", SubSeq(line, i + 1, e - 1)), next |-> e + 1]
    ELSE IF MatchAt(line, <<"=", "=">>, i) THEN [tok |-> PyTok("op", <<"=", "=">>), next |-> i + 2]
    ELSE IF /\ line[i] \in PyOperators
            /\ ~(line[i] \in {":", "+", "-"} /\ i < Len(line) /\ line[i + 1] = "=")
    THEN [tok |-> PyTok("op", <<line[i]>>), next |-> i + 1]
    ELSE [tok |-> PyTok("bad", <<>>), next |-> Len(line) + 1]

\* the tokens of a physical line from place i on, up to its comment, after the tokens ts
RECURSIVE PyTokens(_, _, _)
PyTokens(line, i, ts) ==
    IF i > Len(line) \/ line[i] = "#" \/ (ts # <<>> /\ ts[Len(ts)].t = "bad") THEN ts
    ELSE IF line[i] \in PyBlank THEN PyTokens(line, PyRunEnd(line, i, PyBlank) + 1, ts)
    ELSE PyTokens(line, PyTokenAt(line, i).next, Append(ts, PyTokenAt(line, i).tok))

\* the number of brackets open before token i
PyDepth(ts, i) ==
    Cardinality({j \in 1..(i - 1) : ts[j] = PyTok("op", <<"(">>)})
        - Cardinality({j \in 1..(i - 1) : ts[j] = PyTok("op", <<")">>)})

\* the parts of ts between the operators c outside brackets
PySplit(ts, c) ==
    LET cut == {i \in 1..Len(ts) : ts[i] = PyTok("op", c) /\ PyDepth(ts, i) = 0}
        at(k) == IF k = 0 THEN 0
                 ELSE IF k > Cardinality(cut) THEN Len(ts) + 1
                 ELSE CHOOSE i \in cut : Cardinality({j \in cut : j < i}) = k - 1
    IN  [k \in 1..(Cardinality(cut) + 1) |-> SubSeq(ts, at(k - 1) + 1, at(k) - 1)]

\* the same, an operator c at the end closing the last part
PyItems(ts, c) ==
    IF ts # <<>> /\ ts[Len(ts)] = PyTok("op", c) /\ PyDepth(ts, Len(ts)) = 0
    THEN PySplit(SubSeq(ts, 1, Len(ts) - 1), c)
    ELSE PySplit(ts, c)

\* a literal and an atom side by side, which no statement has (but two strings); a name
\* in front may be a soft keyword of the interpreter's version
PyIsAtomToken(tok) == tok.t \in {"name", "num", "str"} \/ tok.s \in PY_CONSTANTS
PyAdjacent(ts) ==
    \E i \in 1..(Len(ts) - 1) :
        /\ PyIsAtomToken(ts[i])
        /\ PyIsAtomToken(ts[i + 1])
        /\ ~(ts[i].t = "str" /\ ts[i + 1].t = "str")
        /\ ts[i].t # "name"

\* what evaluating gave: st is "ok", "raise" or "unknown", k the type of the value
PyR(st, k) == [st |-> st, k |-> k]
PyWorst(sts) ==
    IF "unknown" \in sts THEN "unknown" ELSE IF "raise" \in sts THEN "raise" ELSE "ok"

\* an atom; a name is looked up in the globals, then in the builtins (NameError); a name
\* that only some interpreters have among their builtins is left open; in code that is
\* compiled only (run false) no name is looked up
PyAtom(tok, env, run) ==
    IF tok.t = "num" THEN PyR("ok", "int")
    ELSE IF tok.t = "str" THEN PyR("ok", "str")
    ELSE IF tok = PyTok("kw", <<"N", "o", "n", "e">>) THEN PyR("ok", "none")
    ELSE IF tok.t = "kw" /\ tok.s \in PY_CONSTANTS THEN PyR("ok", "bool")
    ELSE IF tok.t # "name" THEN PyR("unknown", "")
    ELSE IF ~run THEN PyR("ok", "opaque")
    ELSE IF tok.s \in DOMAIN env THEN PyR("ok", env[tok.s])
    ELSE IF tok.s \in PyBuiltins THEN PyR("ok", "builtin")
    ELSE IF tok.s \in PyBuiltinsOfSome \/ tok.s[1] = "_" THEN PyR("unknown", "")
    ELSE PyR("raise", "")

\* k signs in front of a value (TypeError on a value without __neg__ / __pos__)
PySigned(r, k, run) ==
    IF k > PyDepthDecided THEN PyR("unknown", "")
    ELSE IF k = 0 \/ r.st # "ok" \/ ~run THEN r
    ELSE IF r.k \in {"int", "bool"} THEN PyR("ok", "int")
    ELSE IF r.k \in {"str", "none", "function", "module"} THEN PyR("raise", "")
    ELSE PyR("unknown", "")

PySigns(ts) == PyRunEnd(ts, 1, {PyTok("op", <<"+">>), PyTok("op", <<"-">>)})

\* one argument of a call: [NAME "="] signs atom
PyArg(item, env, run) ==
    IF Len(item) >= 2 /\ item[2] = PyTok("op", <<"=">>)
    THEN IF item[1].t = "name" /\ item[1].s # PY_DEBUG /\ Len(item) = PySigns(Tail(Tail(item))) + 3
         THEN PySigned(PyAtom(item[Len(item)], env, run), PySigns(Tail(Tail(item))), run)
         ELSE PyR("unknown", "")
    ELSE IF Len(item) = PySigns(item) + 1
    THEN PySigned(PyAtom(item[Len(item)], env, run), PySigns(item), run)
    ELSE PyR("unknown", "")

\* the arguments items of a call: [st, n]; keyword arguments come last and differ in
\* their names
PyArgsOf(items, env, run) ==
    IF \E i, j \in 1..Len(items) :
           /\ Len(items[i]) >= 2 /\ items[i][2] = PyTok("op", <<"=">>)
           /\ \/ i < j /\ ~(Len(items[j]) >= 2 /\ items[j][2] = PyTok("op", <<"=">>))
              \/ i # j /\ Len(items[j]) >= 2 /\ items[j][2] = PyTok("op", <<"=">>)
                       /\ items[i][1] = items[j][1]
    THEN [st |-> "unknown", n |-> 0]
    ELSE [st |-> PyWorst({PyArg(items[i], env, run).st : i \in 1..Len(items)}),
          n |-> Len(items)]

\* the arguments between the brackets of a call
PyArgs(ts, env, run) ==
    IF ts = <<>> THEN [st |-> "ok", n |-> 0] ELSE PyArgsOf(PyItems(ts, <<",">>), env, run)

\* the call of value r with arguments a: the factory without arguments returns, a value
\* of a type without __call__ is a TypeError; the call of a literal in code that is
\* compiled only is a SyntaxWarning, which the warning filters may turn into an error
PyCall(r, a, run) ==
    IF r.st = "unknown" \/ a.st = "unknown" THEN PyR("unknown", "")
    ELSE IF r.st = "raise" \/ a.st = "raise" THEN PyR("raise", "")
    ELSE IF ~run THEN (IF r.k = "opaque" THEN r ELSE PyR("unknown", ""))
    ELSE IF r.k = "factory" /\ a.n = 0 THEN PyR("ok", "opaque")
    ELSE IF r.k \in {"int", "str", "bool", "none", "module"} THEN PyR("raise", "")
    ELSE PyR("unknown", "")

\* the calls ts after a value r, n of them made before
RECURSIVE PyCalls(_, _, _, _, _)
PyCalls(r, ts, env, run, n) ==
    IF ts = <<>> THEN r
    ELSE IF \/ n >= PyDepthDecided
            \/ ts[1] # PyTok("op", <<"(">>)
            \/ \A c \in 1..Len(ts) : ts[c] # PyTok("op", <<")">>)
    THEN PyR("unknown", "")
    ELSE LET c == Min({i \in 1..Len(ts) : ts[i] = PyTok("op", <<")">>)})
         IN  PyCalls(PyCall(r, PyArgs(SubSeq(ts, 2, c - 1), env, run), run),
                     SubSeq(ts, c + 1, Len(ts)), env, run, n + 1)

\* k signs, an atom and calls
PyTermOf(ts, k, env, run) ==
    IF Len(ts) <= k THEN PyR("unknown", "")
    ELSE PySigned(PyCalls(PyAtom(ts[k + 1], env, run), SubSeq(ts, k + 2, Len(ts)),
                          env, run, 0),
                  k, run)

\* signs atom calls
PyTerm(ts, env, run) == PyTermOf(ts, PySigns(ts), env, run)

PyTerms(terms, env, run) == [i \in 1..Len(terms) |-> PyTerm(terms[i], env, run)]

\* the comparison of the terms that gave rs: both terms of the first comparison are
\* evaluated; a chain of more than two terms ends at the first false comparison, which
\* the model does not follow
PyCompared(rs, run) ==
    IF Len(rs) = 1 THEN rs[1]
    ELSE IF \E i \in 1..Len(rs) : rs[i].st = "unknown" THEN PyR("unknown", "")
    ELSE IF ~run THEN PyR("ok", "opaque")
    ELSE IF \E i \in 1..2 : rs[i].st = "raise" THEN PyR("raise", "")
    ELSE IF Len(rs) = 2 /\ \A i \in 1..2 : rs[i].k \in PyPlainKinds THEN PyR("ok", "bool")
    ELSE PyR("unknown", "")

\* term == term ...
PyExpr(ts, env, run) == PyCompared(PyTerms(PySplit(ts, <<"=", "=">>), env, run), run)

\* what a statement gave: st as above, env the names bound after it
PyS(st, env) == [st |-> st, env |-> env]
PyBind(env, names, k) == [n \in DOMAIN env \cup names |-> IF n \in names THEN k ELSE env[n]]

\* a target of an assignment: a name; __debug__ and a literal are a SyntaxError, and
\* what follows the binding of __builtins__ is left open
PyTarget(ts) ==
    IF Len(ts) # 1 \/ ts[1].s = PY_BUILTINS THEN "unknown"
    ELSE IF ts[1].t = "name" THEN (IF ts[1].s = PY_DEBUG THEN "raise" ELSE "ok")
    ELSE IF ts[1].t \in {"num", "str"} \/ ts[1].s \in PY_CONSTANTS THEN "raise"
    ELSE "unknown"

\* the targets segs[1] .. segs[Len(segs) - 1] bound to the value that gave r
PyAssigned(segs, r, env, run) ==
    IF \E i \in 1..(Len(segs) - 1) : PyTarget(segs[i]) = "unknown" THEN PyS("unknown", env)
    ELSE IF r.st = "unknown" THEN PyS("unknown", env)
    ELSE IF \E i \in 1..(Len(segs) - 1) : PyTarget(segs[i]) = "raise" THEN PyS("raise", env)
    ELSE IF r.st = "raise" THEN PyS("raise", env)
    ELSE IF run THEN PyS("ok", PyBind(env, {segs[i][1].s : i \in 1..(Len(segs) - 1)}, r.k))
    ELSE PyS("ok", env)

\* (NAME "=")* expr, segs being the parts between the "="
PyAssign(segs, env, run) == PyAssigned(segs, PyExpr(segs[Len(segs)], env, run), env, run)

\* NAME ("." NAME)*
PyDotted(ts) ==
    /\ Len(ts) % 2 = 1
    /\ \A i \in 1..Len(ts) : IF i % 2 = 1 THEN ts[i].t = "name" ELSE ts[i] = PyTok("op", <<".">>)
PyPath(ts) == Join([i \in 1..((Len(ts) + 1) \div 2) |-> ts[2 * i - 1].s], <<".">>)

\* one clause of an import statement, module ["as" NAME]: [st, name]; the import of a
\* module build_autograde has imported returns
PyClause(c, run) ==
    LET as == Len(c) >= 3 /\ c[Len(c) - 1] = PyTok("kw", <<"a", "s">>) /\ c[Len(c)].t = "name"
        path == IF as THEN SubSeq(c, 1, Len(c) - 2) ELSE c
        name == IF as THEN c[Len(c)].s ELSE c[1].s
    IN  IF ~PyDotted(path) \/ name \in {PY_DEBUG, PY_BUILTINS}
        THEN [st |-> "unknown", name |-> <<>>]
        ELSE IF ~run \/ PyPath(path) \in PyRepoModules THEN [st |-> "ok", name |-> name]
        ELSE [st |-> "unknown", name |-> <<>>]

\* the modules of the clauses that gave cs bound to their names
PyImported(cs, env, run) ==
    IF \E i \in 1..Len(cs) : cs[i].st = "unknown" THEN PyS("unknown", env)
    ELSE IF run THEN PyS("ok", PyBind(env, {cs[i].name : i \in 1..Len(cs)}, "module"))
    ELSE PyS("ok", env)

PyClauses(cs, run) == [i \in 1..Len(cs) |-> PyClause(cs[i], run)]

\* import clause ("," clause)*, ts being the clauses
PyImport(ts, env, run) ==
    IF ts = <<>> THEN PyS("unknown", env)
    ELSE PyImported(PyClauses(PySplit(ts, <<",">>), run), env, run)

\* one simple statement; run is false in the body of a def, where return has its place
PySimple(p, env, run) ==
    IF p = <<>> THEN PyS("raise", env)
    ELSE IF p = <<PyTok("kw", PASS)>> THEN PyS("ok", env)
    ELSE IF p[1] = PyTok("kw", <<"r", "e", "t", "u", "r", "n">>) /\ run THEN PyS("raise", env)
    ELSE IF p = <<PyTok("kw", <<"r", "e", "t", "u", "r", "n">>)>> THEN PyS("ok", env)
    ELSE IF p[1] = PyTok("kw", <<"f", "r", "o", "m">>) THEN PyS("unknown", env)
    ELSE IF p[1] = PyTok("kw", <<"i", "m", "p", "o", "r", "t">>) THEN PyImport(Tail(p), env, run)
    ELSE PyAssign(IF p[1] = PyTok("kw", <<"r", "e", "t", "u", "r", "n">>) THEN <<Tail(p)>>
                  ELSE PySplit(p, <<"=">>),
                  env, run)

\* the simple statements of a line from the i-th on, s being what those before gave
RECURSIVE PySimples(_, _, _, _)
PySimples(s, pieces, i, run) ==
    IF s.st # "ok" \/ i > Len(pieces) THEN s
    ELSE PySimples(PySimple(pieces[i], s.env, run), pieces, i + 1, run)

\* def NAME(params): rest, the ")" at place c and the parameters params: [st, env, rest];
\* the parameters differ in their names
PyDef(ts, c, params, env) ==
    IF \/ Len(ts) < 5
       \/ ts[2].t # "name"
       \/ ts[3] # PyTok("op", <<"(">>)
       \/ c < 4
       \/ c = Len(ts)
       \/ ts[c + 1] # PyTok("op", <<":">>)
       \/ \E i \in 1..Len(params) : Len(params[i]) # 1 \/ params[i][1].t # "name"
       \/ \E i \in 1..Len(params) : params[i][1].s = PY_DEBUG
       \/ ts[2].s \in {PY_DEBUG, PY_BUILTINS}
    THEN [st |-> "unknown", env |-> env, rest |-> <<>>]
    ELSE IF \E i, j \in 1..Len(params) : i # j /\ params[i] = params[j]
    THEN [st |-> "raise", env |-> env, rest |-> <<>>]
    ELSE [st |-> "ok", env |-> PyBind(env, {ts[2].s}, "function"),
          rest |-> SubSeq(ts, c + 2, Len(ts))]

\* the place of the first ")" of ts (0 without one)
PyClose(ts) ==
    IF \E i \in 1..Len(ts) : ts[i] = PyTok("op", <<")">>)
    THEN Min({i \in 1..Len(ts) : ts[i] = PyTok("op", <<")">>)})
    ELSE 0

PyParams(ts, c) == IF c <= 4 THEN <<>> ELSE PyItems(SubSeq(ts, 4, c - 1), <<",">>)

\* the head of a line: a def, or nothing in front of the simple statements rest
PyHead(ts, env) ==
    IF ts[1] = PyTok("kw", <<"d", "e", "f">>)
    THEN PyDef(ts, PyClose(ts), PyParams(ts, PyClose(ts)), env)
    ELSE [st |-> "ok", env |-> env, rest |-> ts]

\* the state between two lines: st, env, and block: "top" outside a def, "header" after
\* the line of a def that a block has to follow, "body" in the block indented by n
PyAt(st, env, block, n) == [st |-> st, env |-> env, block |-> block, n |-> n]

\* the line after its simple statements gave r; def: the line began with a def
PyLineEnd(s, d, def, h, r) ==
    IF d > 0 THEN PyAt(r.st, s.env, "body", d)
    ELSE IF def THEN PyAt(r.st, h.env, "top", 0)
    ELSE PyAt(r.st, r.env, "top", 0)

\* the line after its head gave h; the statements of a def and of its block are compiled
\* and not run
PyLineAfter(s, d, def, h) ==
    IF h.st # "ok" THEN PyAt(h.st, s.env, "top", 0)
    ELSE IF def /\ h.rest = <<>> THEN PyAt("ok", h.env, "header", 0)
    ELSE PyLineEnd(s, d, def, h,
                   PySimples(PyS("ok", h.env), PyItems(h.rest, <<";">>), 1, d = 0 /\ ~def))

\* a line of tokens ts indented by d blanks (a tab among them: tab)
PyLineOf(s, ts, d, tab) ==
    IF ts = <<>> THEN s
    ELSE IF \E i \in 1..Len(ts) : ts[i].t = "bad" THEN PyAt("unknown", s.env, s.block, s.n)
    ELSE IF s.block = "top" /\ d > 0 THEN PyAt("raise", s.env, s.block, s.n)
    ELSE IF tab THEN PyAt("unknown", s.env, s.block, s.n)
    ELSE IF \/ s.block = "header" /\ d = 0
            \/ s.block = "body" /\ d \notin {0, s.n}
            \/ PyAdjacent(ts)
    THEN PyAt("raise", s.env, s.block, s.n)
    ELSE IF d > 0 /\ ts[1] = PyTok("kw", <<"d", "e", "f">>) THEN PyAt("unknown", s.env, s.block, s.n)
    ELSE PyLineAfter(s, d, ts[1] = PyTok("kw", <<"d", "e", "f">>), PyHead(ts, s.env))

PyLine(s, line) ==
    PyLineOf(s, PyTokens(line, 1, <<>>), PyRunEnd(line, 1, PyBlank),
             \E i \in 1..PyRunEnd(line, 1, PyBlank) : line[i] = "\t")

\* the lines from line i on, s being the state before them
RECURSIVE ExecFrom(_, _, _)
ExecFrom(s, lines, i) ==
    IF s.st = "raise" THEN "raises"
    ELSE IF s.st = "unknown" THEN "unknown"
    ELSE IF i > Len(lines) THEN (IF s.block = "header" THEN "raises" ELSE "returns")
    ELSE ExecFrom(PyLine(s, lines[i]), lines, i + 1)

\* exec(source, {'generate_system_test_setting': ...}): "returns", "raises", "unknown"
ExecOutcome(source) ==
    IF \E i \in 1..Len(source) : source[i] \notin PyPlainChars THEN "unknown"
    ELSE ExecFrom(PyAt("ok", PyGlobals, "top", 0), SplitLines(source), 1)

\* the program goes on after exec: interp is what the interpreter does with a program
\* the model leaves open
PyGoesOn(outcome, interp) == outcome = "returns" \/ (outcome = "unknown" /\ interp)

\* exec returns normally
ExecRuns(source, interp) == PyGoesOn(ExecOutcome(source), interp)

\* load_system_test_setting: [ok, setting]
load_system_test_setting(cells, interp) ==
    IF Len(cells) >= 1 /\ ExecRuns(cells[1].source, interp)
    THEN [ok |-> TRUE, setting |-> "judge_setting.generate"]
    ELSE [ok |-> FALSE, setting |-> "raised"]

\* The outcomes of one iteration of the loop of load_exercise: [ok, err, kwargs]
LoadFail(kwargs, e) == [ok |-> FALSE, err |-> e, kwargs |-> kwargs]
LoadOk(kwargs) == [ok |-> TRUE, err |-> "", kwargs |-> kwargs]

\* exercise_kwargs[attr] = v
SetKwarg(kwargs, attr, v) ==
    [a \in DOMAIN kwargs \cup {attr} |-> IF a = attr THEN v ELSE kwargs[a]]

\* exercise_kwargs[field_key.name.lower()] = ..., with what each field key stores
StoreSetting(kwargs, f, r) ==
    IF r.ok THEN LoadOk(SetKwarg(kwargs, FieldAttr[f], r.setting)) ELSE LoadFail(kwargs, "setting")

StoreFiles(kwargs, f, r) ==
    IF r.ok THEN LoadOk(SetKwarg(kwargs, FieldAttr[f], r.files)) ELSE LoadFail(kwargs, "file_name")

\* interp: what the interpreter does with a setting program the model of exec leaves open
StoreField(kwargs, f, cells, interp) ==
    IF f = "SYSTEM_TEST_SETTING"
    THEN StoreSetting(kwargs, f, load_system_test_setting(cells, interp))
    ELSE IF f = "SYSTEM_TEST_CASES" THEN StoreFiles(kwargs, f, SplitFileCodeCells(cells))
    ELSE IF f = "STUDENT_CODE_CELL"
    THEN IF Len(cells) >= 1 THEN LoadOk(SetKwarg(kwargs, FieldAttr[f], cells[1]))
         ELSE LoadFail(kwargs, "index")
    ELSE LoadOk(SetKwarg(kwargs, FieldAttr[f], cells))

\* the heading check h made: the title is stored with the first cell of CONTENT
HeadedField(kwargs, f, props, cells, h, interp) ==
    IF ~h.ok THEN LoadFail(kwargs, "heading")
    ELSE IF Len(cells) > 0 /\ "MARKDOWN_HEADED" \in props /\ f = "CONTENT"
    THEN StoreField(SetKwarg(kwargs, "title", h.title), f, cells, interp)
    ELSE StoreField(kwargs, f, cells, interp)

\* the checks of a field key that is not skipped
CheckedField(kwargs, f, props, cells, interp) ==
    IF ~CardinalityOk(props, Len(cells)) THEN LoadFail(kwargs, "cardinality")
    ELSE IF ~CodeOnlyOk(props, cells) THEN LoadFail(kwargs, "cell_kind")
    ELSE HeadedField(kwargs, f, props, cells, HeadingCheck(props, cells), interp)

KnownField(kwargs, f, cells, interp) ==
    IF f \in SkippedFields THEN LoadOk(kwargs)
    ELSE CheckedField(kwargs, f, FieldProperties[f], cells, interp)

\* One iteration of the loop of load_exercise over the items of split_cells:
\* [ok, err, kwargs]
LoadField(kwargs, name, cells, interp) ==
    IF ~IsFieldKeyName(name) THEN LoadFail(kwargs, "unknown_field")
    ELSE KnownField(kwargs, FieldEnum(name), cells, interp)

\* The loop of load_exercise from item i on, LoadFieldsAfter with the outcome of item i
RECURSIVE LoadFields(_, _, _, _)
RECURSIVE LoadFieldsAfter(_, _, _, _)
LoadFieldsAfter(r, items, i, interp) ==
    IF r.ok THEN LoadFields(r.kwargs, items, i + 1, interp) ELSE r

LoadFields(kwargs, items, i, interp) ==
    IF i > Len(items) THEN LoadOk(kwargs)
    ELSE LoadFieldsAfter(LoadField(kwargs, items[i].k, items[i].v, interp), items, i, interp)

\* The mutant of ExerciseInit in which the fields of the OPTIONAL groups have defaults
ExerciseInitDefaults(kwargs) ==
    /\ DOMAIN kwargs \subseteq ExerciseFields
    /\ ExerciseFields \ {"explanation", "answer_examples", "student_tests"} \subseteq DOMAIN kwargs

\* Exercise(**exercise_kwargs): every field of the dataclass must be given
ExerciseInit(kwargs) == DOMAIN kwargs = ExerciseFields

\* a version string that is not a digest
LiteralVersion(text) == [kind |-> "literal", text |-> text, definition |-> <<>>]

\* ipynb_metadata.master_metadata_version
master_metadata_version(metadata) ==
    IF metadata.judge_master = <<>> THEN LiteralVersion("")
    ELSE metadata.judge_master[1].version

\* the first keywords of the record
InitialKwargs(dirpath, exercise_key, metadata) ==
    [key |-> exercise_key, dirpath |-> dirpath, version |-> master_metadata_version(metadata)]

\* return Exercise(**exercise_kwargs), after the loop that ended as r
LoadConstruct(r) ==
    IF ~r.ok THEN [ok |-> FALSE, err |-> r.err, exercise |-> <<>>]
    ELSE IF ~ExerciseInit(r.kwargs)
    THEN [ok |-> FALSE, err |-> "missing_field", exercise |-> <<>>]
    ELSE [ok |-> TRUE, err |-> "", exercise |-> r.kwargs]

\* the loop over the items s of split_cells
LoadSplit(kwargs, s, interp) ==
    IF ~s.ok THEN [ok |-> FALSE, err |-> "segmentation", exercise |-> <<>>]
    ELSE LoadConstruct(LoadFields(kwargs, s.results, 1, interp))

\* load_exercise on the document (raw_cells, metadata) found at dirpath/exercise_key.ipynb:
\* [ok, err, exercise]
load_exercise(dirpath, exercise_key, doc, interp) ==
    LoadSplit(InitialKwargs(dirpath, exercise_key, doc.metadata), split_cells(doc.cells),
              interp)
----------------------------------------------------------------------------
(* The derived views of an Exercise record *)

\* the text between the triple quotes of SUBMISSION_CELL_FORMAT
SubmissionCellTemplate ==
    <<"\n", "#", "#", "#", "#", "#", "#", "#", "#", "#", "#", "#", "#", "#", "#", "#", "#", "#", "#", "#", "#", "#", "#", "#", "#", "#", "#", "#", "#", "#", "#", "#", "#", "#", "#", "#", "#", "#", "#", "#", "#", "#", "#", "#", "#", "#", "#", "#", "#", "#", "#", "#", "#", "#", "#", "#", "#", "#", "#", "\n", "#", "#", " ", " ", "<", "[", " ", "{", "e", "x", "e", "r", "c", "i", "s", "e", "_", "k", "e", "y", "}", " ", "]", ">", " ", "U+89E3", "U+7B54", "U+30BB", "U+30EB", " ", "(", "A", "n", "s", "w", "e", "r", " ", "c", "e", "l", "l", ")", "\n", "#", "#", " ", " ", "U+3053", "U+306E", "U+30B3", "U+30E1", "U+30F3", "U+30C8", "U+306E", "U+66F8", "U+304D", "U+5909", "U+3048", "U+3092", "U+7981", "U+305A", " ", "(", "N", "e", "v", "e", "r", " ", "e", "d", "i", "t", " ", "t", "h", "i", "s", " ", "c", "o", "m", "m", "e", "n", "t", ")", "\n", "#", "#", "#", "#", "#", "#", "#", "#", "#", "#", "#", "#", "#", "#", "#", "#", "#", "#", "#", "#", "#", "#", "#", "#", "#", "#", "#", "#", "#", "#", "#", "#", "#", "#", "#", "#", "#", "#", "#", "#", "#", "#", "#", "#", "#", "#", "#", "#", "#", "#", "#", "#", "#", "#", "#", "#", "#", "#", "\n", "\n", "{", "c", "o", "n", "t", "e", "n", "t", "}">>

\* the text between the triple quotes of REDIRECTION_CELL_FORMAT
RedirectionCellTemplate ==
    <<"\n", "#", " ", "U+3053", "U+306E", "U+30BB", "U+30EB", "U+3067", "U+306F", "U+306A", "U+304F", " ", "{", "r", "e", "d", "i", "r", "e", "c", "t", "_", "t", "o", "}", " ", "U+3092", "U+4F7F", "U+3063", "U+3066", "U+304F", "U+3060", "U+3055", "U+3044", "\n", "#", " ", "U", "s", "e", " ", "{", "r", "e", "d", "i", "r", "e", "c", "t", "_", "t", "o", "}", " ", "i", "n", "s", "t", "e", "a", "d", " ", "o", "f", " ", "t", "h", "i", "s", " ", "c", "e", "l", "l", "\n">>

SUBMISSION_CELL_FORMAT == Strip(SubmissionCellTemplate)
REDIRECTION_CELL_FORMAT == Strip(RedirectionCellTemplate)

LBRACE == "{"
RBRACE == "}"

\* str.format(**kw) for a template of literal text and {name} fields; kw is a dict
RECURSIVE Format(_, _)
Format(t, kw) ==
    LET open == {i \in 1..Len(t) : t[i] = LBRACE}
    IN  IF open = {} THEN t
        ELSE LET o == Min(open)
                 c == Min({i \in o..Len(t) : t[i] = RBRACE})
             IN  SubSeq(t, 1, o - 1) \o DictGet(kw, SubSeq(t, o + 1, c - 1))
                     \o Format(SubSeq(t, c + 1, Len(t)), kw)

SpaceTab == {" ", "\t"}
REDIRECT_TO == <<"r", "e", "d", "i", "r", "e", "c", "t", "-", "t", "o">>
COLON == ":"
DOT_IPYNB == <<".", "i", "p", "y", "n", "b">>

\* the length of the longest run of characters of S in s from index i on
RunFrom(s, i, S) == Max({n \in 0..(Len(s) - i + 1) : \A k \in i..(i + n - 1) : s[k] \in S})

\* re.match(r'#[ \t]*redirect-to[ \t]*:[ \t]*(\S+?\.ipynb)', source): m[1] or None
RedirectMatch(source) ==
    IF ~StartsWith(source, <<HASH>>) THEN None
    ELSE LET i2 == 2 + RunFrom(source, 2, SpaceTab)
             i3 == i2 + Len(REDIRECT_TO) + RunFrom(source, i2 + Len(REDIRECT_TO), SpaceTab)
             i4 == i3 + 1 + RunFrom(source, i3 + 1, SpaceTab)
             ends == {e \in (i4 + 1)..Len(source) :
                         /\ MatchAt(source, DOT_IPYNB, e)
                         /\ \A k \in i4..(e - 1) : source[k] \notin Whitespace}
         IN  IF /\ MatchAt(source, REDIRECT_TO, i2)
                /\ MatchAt(source, <<COLON>>, i3)
                /\ ends # {}
             THEN SubSeq(source, i4, Min(ends) + Len(DOT_IPYNB) - 1)
             ELSE None

\* Exercise.submission_redirection
submission_redirection(ex) == RedirectMatch(ex.student_code_cell.source)

EXERCISE_KEY == <<"e", "x", "e", "r", "c", "i", "s", "e", "_", "k", "e", "y">>
CONTENT_FIELD == <<"c", "o", "n", "t", "e", "n", "t">>
REDIRECT_TO_FIELD == <<"r", "e", "d", "i", "r", "e", "c", "t", "_", "t", "o">>

\* The mutant of submission_cell that renders the banner with the stripped student source
SubmissionCellStripsSource(ex) ==
    LET redirect_to == submission_redirection(ex)
    IN  IF redirect_to # None /\ redirect_to # <<>>
        THEN Cell(CODE, Format(REDIRECTION_CELL_FORMAT,
                               <<[k |-> REDIRECT_TO_FIELD, v |-> redirect_to]>>))
        ELSE Cell(CODE, Format(SUBMISSION_CELL_FORMAT,
                               <<[k |-> EXERCISE_KEY, v |-> ex.key],
                                 [k |-> CONTENT_FIELD, v |-> Strip(ex.student_code_cell.source)]>>))

\* Exercise.submission_cell
submission_cell(ex) ==
    LET redirect_to == submission_redirection(ex)
    IN  IF redirect_to # None /\ redirect_to # <<>>
        THEN Cell(CODE, Format(REDIRECTION_CELL_FORMAT,
                               <<[k |-> REDIRECT_TO_FIELD, v |-> redirect_to]>>))
        ELSE Cell(CODE, Format(SUBMISSION_CELL_FORMAT,
                               <<[k |-> EXERCISE_KEY, v |-> ex.key],
                                 [k |-> CONTENT_FIELD, v |-> ex.student_code_cell.source]>>))

\* Exercise.submission_cell_filled
submission_cell_filled(ex) ==
    Cell(CODE, Format(SUBMISSION_CELL_FORMAT,
                      <<[k |-> EXERCISE_KEY, v |-> ex.key],
                        [k |-> CONTENT_FIELD,
                         v |-> IF ex.answer_examples # <<>> THEN ex.answer_examples[1].source
                               ELSE ex.student_code_cell.source]>>))

\* Cell.to_ipynb
to_ipynb(cell) ==
    IF cell.cell_type = CODE
    THEN [cell_type |-> cell.cell_type, execution_count |-> "None", metadata |-> <<>>,
          outputs |-> <<>>, source |-> SplitLinesKeepEnds(cell.source)]
    ELSE [cell_type |-> cell.cell_type, metadata |-> <<>>,
          source |-> SplitLinesKeepEnds(cell.source)]

\* [c.to_ipynb() for c in cells]
ToIpynbAll(cells) == [i \in 1..Len(cells) |-> to_ipynb(cells[i])]

JUDGE_UTIL_PREFIX == <<"@", "j", "u", "d", "g", "e", "_", "u", "t", "i", "l", ".">>

\* is_not_decorator_line
is_not_decorator_line(x) == ~StartsWith(x, JUDGE_UTIL_PREFIX)

\* itertools.dropwhile(pred, xs) with pred = is_not_decorator_line
RECURSIVE DropWhileNotDecorator(_)
DropWhileNotDecorator(xs) ==
    IF xs = <<>> THEN <<>>
    ELSE IF is_not_decorator_line(xs[1]) THEN DropWhileNotDecorator(Tail(xs))
    ELSE xs

\* filter(is_not_decorator_line, xs)
FilterNotDecorator(xs) == SelectSeq(xs, is_not_decorator_line)

\* The mutant of SummarizedLines that drops the leading decorator lines instead
RECURSIVE DropWhileDecorator(_)
DropWhileDecorator(xs) ==
    IF xs = <<>> THEN <<>>
    ELSE IF ~is_not_decorator_line(xs[1]) THEN DropWhileDecorator(Tail(xs))
    ELSE xs

SummarizedLinesKeepsPrelude(src) == FilterNotDecorator(DropWhileDecorator(SplitLines(src)))

\* the lines one test case adds to contents
SummarizedLines(src) == FilterNotDecorator(DropWhileNotDecorator(SplitLines(src)))

\* the loop of summarize_testcases: contents before the final pop
RECURSIVE SummarizeContents(_)
SummarizeContents(cases) ==
    IF cases = <<>> THEN <<>>
    ELSE SummarizedLines(cases[1].content) \o <<<<>>>> \o SummarizeContents(Tail(cases))

\* summarize_testcases, for a non-empty list of test cases (contents.pop() raises on
\* an empty one)
summarize_testcases(ex) ==
    LET contents == SummarizeContents(ex.system_test_cases)
    IN  Cell(CODE, Join(SubSeq(contents, 1, Len(contents) - 1), <<"\n">>))

\* ipynb_metadata.COMMON_METADATA
COMMON_METADATA == [judge_master |-> <<>>, judge_submission |-> <<>>]

\* ipynb_metadata.submission_metadata: judge_submission holds one {exercises, extraction}
submission_metadata(key_to_version, extraction) ==
    [judge_master |-> <<>>,
     judge_submission |-> <<[exercises |-> key_to_version, extraction |-> extraction]>>]

\* ipynb_metadata.master_metadata (title and deadlines given)
master_metadata(exercise_key, autograde, version, title, deadlines) ==
    [judge_master |-> <<[autograde |-> autograde, deadlines |-> deadlines,
                         exercise_key |-> exercise_key, title |-> title,
                         version |-> version]>>,
     judge_submission |-> <<>>]

\* ipynb_metadata.master_metadata_deadlines
master_metadata_deadlines(metadata) ==
    IF metadata.judge_master = <<>> THEN "no deadlines"
    ELSE metadata.judge_master[1].deadlines

\* The mutant of exercise_definition that hashes the student code cell as it is
ExerciseDefinitionOfStudentCell(ex) ==
    [content |-> ToIpynbAll(ex.content),
     submission_cell |-> to_ipynb(ex.student_code_cell),
     student_tests |-> ToIpynbAll(ex.student_tests)]

\* the dict hashed by cleanup_exercise_masters
exercise_definition(ex) ==
    [content |-> ToIpynbAll(ex.content),
     submission_cell |-> to_ipynb(submission_cell(ex)),
     student_tests |-> ToIpynbAll(ex.student_tests)]

\* hashlib.sha1 of json.dumps(definition), SHA-1 and json.dumps taken as injective: the
\* digest is identified with what was hashed
Sha1Version(definition) == [kind |-> "sha1", text |-> "", definition |-> <<definition>>]

\* The version cleanup_exercise_masters leaves in the record: renew_version is "none",
\* "sha1" (the flag without a value) or a literal version
RenewedVersion(ex, renew_version) ==
    IF renew_version = "none" THEN ex.version
    ELSE IF renew_version = "sha1" THEN Sha1Version(exercise_definition(ex))
    ELSE LiteralVersion(renew_version)

----------------------------------------------------------------------------
(* SpecLoadEx: load_exercise field by field, on master documents that declare each
   field at most once, in the order of FieldKey, and differ from a well-formed
   document in at most MaxDeviations fields *)

MaxDeviations == 2

LdFieldOrder ==
    <<"WARNING", "CONTENT", "STUDENT_CODE_CELL", "EXPLANATION", "ANSWER_EXAMPLES",
      "STUDENT_TESTS", "SYSTEM_TEST_CASES", "SYSTEM_TEST_CASES_EXECUTE_CELL",
      "SYSTEM_TEST_SETTING">>

MdHeading == Cell(MARKDOWN, <<"#", " ", "T">>)
CodePass == Cell(CODE, <<"p", "a", "s", "s">>)
CodeFile == Cell(CODE, <<"#", " ", "t", ".", "p", "y", "\n", "x">>)

Absent == [present |-> FALSE, cells |-> <<>>]
Group(cells) == [present |-> TRUE, cells |-> cells]

\* what a field's section can hold: nothing declared, or a declared group of 0, 1, 2 cells
LdOptions ==
    {Absent, Group(<<>>), Group(<<MdHeading>>), Group(<<CodePass>>),
     Group(<<CodePass, CodePass>>)}

LdBase ==
    [WARNING |-> Absent,
     CONTENT |-> Group(<<MdHeading>>),
     STUDENT_CODE_CELL |-> Group(<<CodePass>>),
     EXPLANATION |-> Group(<<>>),
     ANSWER_EXAMPLES |-> Group(<<>>),
     STUDENT_TESTS |-> Group(<<>>),
     SYSTEM_TEST_CASES |-> Group(<<CodeFile>>),
     SYSTEM_TEST_CASES_EXECUTE_CELL |-> Absent,
     SYSTEM_TEST_SETTING |-> Group(<<CodePass>>)]

\* cells for the first place of a MARKDOWN_HEADED group: a heading in a raw cell, running
\* text, hashes without a blank after them, and a heading with blanks around it
RawHeading == Cell(RAW, <<"#", " ", "T">>)
MdPlain == Cell(MARKDOWN, <<"T">>)
MdTight == Cell(MARKDOWN, <<"#", "T">>)
MdPadded == Cell(MARKDOWN, <<" ", "#", "#", " ", " ", "T", " ", "U", " ", "\n", "x">>)

\* what more the section of a MARKDOWN_HEADED field can hold
LdHeadedOptions ==
    {Group(<<RawHeading>>), Group(<<MdPlain>>), Group(<<MdTight>>), Group(<<MdPadded>>),
     Group(<<CodeFile>>), Group(<<MdHeading, CodePass>>)}

\* setting programs: the call the exercise masters make, a program that raises, and one
\* whose outcome the source does not fix (a module that may or may not be installed)
CodeSetting == Cell(CODE, <<"g", "e", "n", "e", "r", "a", "t", "e", "_", "s", "y", "s", "t", "e", "m", "_", "t", "e", "s", "t", "_", "s", "e", "t", "t", "i", "n", "g", "(", ")">>)
CodeRaising == Cell(CODE, <<"u", "n", "d", "e", "f", "i", "n", "e", "d", "_", "n", "a", "m", "e">>)
CodeOpen == Cell(CODE, <<"i", "m", "p", "o", "r", "t", " ", "n", "u", "m", "p", "y">>)

\* what more the section of SYSTEM_TEST_SETTING can hold
LdSettingOptions == {Group(<<CodeSetting>>), Group(<<CodeRaising>>), Group(<<CodeOpen>>)}

LdOptionsOf(f) ==
    IF "MARKDOWN_HEADED" \in FieldProperties[f] THEN LdOptions \cup LdHeadedOptions
    ELSE IF f = "SYSTEM_TEST_SETTING" THEN LdOptions \cup LdSettingOptions
    ELSE LdOptions

LdChoices ==
    UNION {{[f \in FieldKey |-> IF f \in D THEN d[f] ELSE LdBase[f]] :
                d \in {e \in [D -> LdOptions \cup LdHeadedOptions \cup LdSettingOptions] :
                           \A f \in D : e[f] \in LdOptionsOf(f)}} :
              D \in {X \in SUBSET FieldKey : Cardinality(X) <= MaxDeviations}}

Delimiter(f) == Cell(MARKDOWN, <<"*", "*", "*", "C", "O", "N", "T", "E", "N", "T", "_", "T", "Y", "P", "E", ":", " ">> \o FieldKeyName[f] \o STARS)

RECURSIVE LdCells(_, _)
LdCells(choice, i) ==
    IF i > Len(LdFieldOrder) THEN <<>>
    ELSE LET f == LdFieldOrder[i]
         IN  (IF choice[f].present THEN <<Delimiter(f)>> \o choice[f].cells ELSE <<>>)
             \o LdCells(choice, i + 1)

\* the metadata of a master released before, at version v1
LdMetadata == master_metadata(<<"d", "-", "1">>, TRUE, LiteralVersion("v1"), <<"T">>, "no deadlines")

LdDocument(choice) == [cells |-> LdCells(choice, 1), metadata |-> LdMetadata]

LdDirpath == <<"d">>
LdKey == <<"d", "-", "1">>

LdStart(choice) ==
    [choice |-> choice, status |-> "start", items |-> <<>>,
     i |-> 0, kwargs |-> <<>>, err |-> "", err_field |-> <<>>, exercise |-> <<>>]

\* raw_cells, metadata = load_cells(...); split_cells(raw_cells)
LdSplit ==
    /\ ld.status = "start"
    /\ LET s == split_cells(LdDocument(ld.choice).cells)
       IN  ld' = IF s.ok
                 THEN [ld EXCEPT !.status = "fields", !.items = s.results, !.i = 1,
                                 !.kwargs = InitialKwargs(LdDirpath, LdKey,
                                                     LdDocument(ld.choice).metadata)]
                 ELSE [ld EXCEPT !.status = "failed", !.err = "segmentation"]
    /\ UNCHANGED <<seg, rc, rd, vr, sm, mainVars>>

\* for field_key, cells in ...: one iteration
LdField ==
    /\ ld.status = "fields"
    /\ ld.i <= Len(ld.items)
    /\ \E r \in {LoadField(ld.kwargs, ld.items[ld.i].k, ld.items[ld.i].v, interp) :
                    interp \in BOOLEAN} :
           ld' = IF r.ok
                 THEN [ld EXCEPT !.kwargs = r.kwargs, !.i = @ + 1]
                 ELSE [ld EXCEPT !.status = "failed", !.err = r.err,
                                 !.err_field = ld.items[ld.i].k]
    /\ UNCHANGED <<seg, rc, rd, vr, sm, mainVars>>

\* return Exercise(**exercise_kwargs)
LdConstruct ==
    /\ ld.status = "fields"
    /\ ld.i > Len(ld.items)
    /\ ld' = IF ExerciseInit(ld.kwargs)
             THEN [ld EXCEPT !.status = "loaded", !.exercise = ld.kwargs]
             ELSE [ld EXCEPT !.status = "failed", !.err = "missing_field"]
    /\ UNCHANGED <<seg, rc, rd, vr, sm, mainVars>>

----------------------------------------------------------------------------
(* SpecCell: Exercise.submission_cell and the cells of the single form, for every
   record of RcExercises *)

\* a record with the fields the views read; the others play no part in them
ExerciseRecord(key, version, content, student, answers, tests) ==
    [key |-> key, dirpath |-> <<"d">>, version |-> version, title |-> <<"T">>,
     content |-> content, student_code_cell |-> student, explanation |-> <<>>,
     answer_examples |-> answers, student_tests |-> tests,
     system_test_cases |-> <<[name |-> <<"t", ".", "p", "y">>, content |-> <<"x", "\n">>, cell |-> CodeFile]>>,
     system_test_setting |-> "judge_setting.generate"]

RcKeys == {<<"d", "-", "1">>, <<"{", "k", "}">>}

RcSources ==
    { <<"p", "a", "s", "s">>,
      <<" ", "x", "{", "c", "o", "n", "t", "e", "n", "t", "}", "\n", "{", "y", "}", "\n", " ">>,
      <<"<", "[", " ", "d", "-", "1", " ", "]", ">">>,
      <<"#", " ", "r", "e", "d", "i", "r", "e", "c", "t", "-", "t", "o", ":", " ", "a", ".", "i", "p", "y", "n", "b">>,
      <<"#", "r", "e", "d", "i", "r", "e", "c", "t", "-", "t", "o", " ", "\t", ":", " ", "a", ".", "i", "p", "y", "n", "b", ".", "i", "p", "y", "n", "b", "\n", "f", "o", "o">>,
      <<" ", "#", " ", "r", "e", "d", "i", "r", "e", "c", "t", "-", "t", "o", ":", " ", "b", ".", "i", "p", "y", "n", "b">>,
      <<"#", " ", "r", "e", "d", "i", "r", "e", "c", "t", "-", "t", "o", ":", " ", "a", " ", "b", ".", "i", "p", "y", "n", "b">> }

RcExercises ==
    {ExerciseRecord(k, LiteralVersion("v1"), c, Cell(CODE, s), <<>>, t) :
        k \in RcKeys, s \in RcSources,
        c \in {<<MdHeading>>, <<MdHeading, CodePass>>}, t \in {<<>>, <<CodePass>>}}

\* itertools.chain(ex.content, [ex.submission_cell()], ex.student_tests)
SingleFormCells(ex) == ex.content \o <<submission_cell(ex)>> \o ex.student_tests

\* ex.submission_cell()
RcSubmissionCell ==
    /\ rc.status = "start"
    /\ rc' = [rc EXCEPT !.status = "cell", !.cell = submission_cell(rc.ex)]
    /\ UNCHANGED <<seg, ld, rd, vr, sm, mainVars>>

\* the cells create_single_forms saves as the form of ex
RcFormCells ==
    /\ rc.status = "cell"
    /\ rc' = [rc EXCEPT !.status = "form", !.form = SingleFormCells(rc.ex)]
    /\ UNCHANGED <<seg, ld, rd, vr, sm, mainVars>>

----------------------------------------------------------------------------
(* SpecVersion: the version renewal of cleanup_exercise_masters on two records *)

VrExercises ==
    {ExerciseRecord(k, LiteralVersion(v), c, Cell(CODE, s), a, t) :
        k \in {<<"d", "-", "1">>, <<"d", "-", "2">>},
        v \in {"v1", "v2"},
        c \in {<<MdHeading>>, <<MdHeading, CodePass>>},
        s \in {<<"p", "a", "s", "s">>, <<"#", " ", "r", "e", "d", "i", "r", "e", "c", "t", "-", "t", "o", ":", " ", "a", ".", "i", "p", "y", "n", "b">>},
        a \in {<<>>, <<CodePass>>},
        t \in {<<>>, <<CodePass>>}}

VrRenewOptions == {"none", "sha1", "v9"}

\* one iteration of the loop of cleanup_exercise_masters, on the first record
VrRenewA ==
    /\ vr.status = "start"
    /\ LET v == RenewedVersion(vr.a, vr.renew_version)
       IN  vr' = [vr EXCEPT !.status = "first",
                            !.a = [vr.a EXCEPT !.version = v],
                            !.saved = Append(@, master_metadata(vr.a.key, TRUE, v, vr.a.title,
                                                              "no deadlines"))]
    /\ UNCHANGED <<seg, ld, rc, rd, sm, mainVars>>

\* the next iteration, on the second record
VrRenewB ==
    /\ vr.status = "first"
    /\ LET v == RenewedVersion(vr.b, vr.renew_version)
       IN  vr' = [vr EXCEPT !.status = "done",
                            !.b = [vr.b EXCEPT !.version = v],
                            !.saved = Append(@, master_metadata(vr.b.key, TRUE, v, vr.b.title,
                                                              "no deadlines"))]
    /\ UNCHANGED <<seg, ld, rc, rd, sm, mainVars>>

----------------------------------------------------------------------------
(* SpecSummarize: the loop of summarize_testcases over at most MaxCases test cases *)

MaxCases == 3

\* the file bodies split_file_code_cell extracts: stripped text and a final newline
SmBodies ==
    { <<"i", "m", "p", "o", "r", "t", " ", "j", "\n", "@", "j", "u", "d", "g", "e", "_", "u", "t", "i", "l", ".", "a", "\n", "d", "e", "f", " ", "f", "(", ")", ":", "\n", " ", " ", "p", "a", "s", "s", "\n">>,
      <<"@", "j", "u", "d", "g", "e", "_", "u", "t", "i", "l", ".", "a", "\n", "x", "\n", "@", "j", "u", "d", "g", "e", "_", "u", "t", "i", "l", ".", "b", "\n", "y", "\n">>,
      <<"x", "\n", "y", "\n">>,
      <<"@", "j", "u", "d", "g", "e", "_", "u", "t", "i", "l", ".", "a", "\n">>,
      <<"x", "\n", "@", "j", "u", "d", "g", "e", "_", "u", "t", "i", "l", ".", "a", "\n", "\n", "z", "\n">>,
      <<"@", " ", "j", "u", "d", "g", "e", "_", "u", "t", "i", "l", ".", "a", "\n", "@", "j", "u", "d", "g", "e", "_", "u", "t", "i", "l", ".", "b", "\n", "x", "\n">> }

SmCaseLists ==
    UNION {[1..n -> {[name |-> <<"t", ".", "p", "y">>, content |-> b, cell |-> CodeFile] : b \in SmBodies}] :
              n \in 1..MaxCases}

\* for _, src, _ in exercise.system_test_cases: one iteration
SmCase ==
    /\ sm.status = "loop"
    /\ sm.i <= Len(sm.cases)
    /\ sm' = [sm EXCEPT !.i = @ + 1,
                        !.contents = @ \o SummarizedLines(sm.cases[sm.i].content) \o <<<<>>>>]
    /\ UNCHANGED <<seg, ld, rc, rd, vr, mainVars>>

\* contents.pop() and the return
SmReturn ==
    /\ sm.status = "loop"
    /\ sm.i > Len(sm.cases)
    /\ sm' = [sm EXCEPT !.status = "returned",
                        !.contents = SubSeq(@, 1, Len(@) - 1),
                        !.cell = Cell(CODE, Join(SubSeq(sm.contents, 1, Len(sm.contents) - 1),
                                                 <<"\n">>))]
    /\ UNCHANGED <<seg, ld, rc, rd, vr, mainVars>>

----------------------------------------------------------------------------
(* SpecRedirect: create_redirect_form for one redirecting exercise and one target *)

MaxTargetCells == 2

MARKER_OPEN == <<"<", "[", " ">>
MARKER_CLOSE == <<" ", "]", ">">>
DOT == "."

\* The mutant of KeyPatternMatchAt that takes the key as literal text
KeyLiteralMatchAt(line, key, i) == MatchAt(line, key, i)

\* the key as it stands in the pattern rf'<\[ {exercise.key} \]>', matched at index i of
\* line: keys over letters, digits, "-", "_" and ".", where "." is the one
\* metacharacter and matches any character but a newline
KeyPatternMatchAt(line, key, i) ==
    /\ i >= 1
    /\ i + Len(key) - 1 <= Len(line)
    /\ \A j \in 1..Len(key) :
           IF key[j] = DOT THEN line[i + j - 1] # "\n" ELSE line[i + j - 1] = key[j]

\* re.search(rf'<\[ {exercise.key} \]>', line)
MarkerSearch(key, line) ==
    \E i \in 1..Len(line) :
        /\ MatchAt(line, MARKER_OPEN, i)
        /\ KeyPatternMatchAt(line, key, i + Len(MARKER_OPEN))
        /\ MatchAt(line, MARKER_CLOSE, i + Len(MARKER_OPEN) + Len(key))

\* the any(...) of create_redirect_form over the raw cells (notebook dicts) of the target
HasAnswerCell(key, raw_cells) ==
    \E c \in 1..Len(raw_cells) :
        /\ raw_cells[c].cell_type = CODE
        /\ \E l \in 1..Len(raw_cells[c].source) : MarkerSearch(key, raw_cells[c].source[l])

\* The mutant of create_redirect_form that adds the exercise to the version map the
\* target has, instead of writing a new one
CreateRedirectFormMerging(ex, target) ==
    IF ~target.exists THEN [result |-> "file_not_found", notebook |-> target]
    ELSE IF ~HasAnswerCell(ex.key, target.cells)
    THEN [result |-> "no_answer_cell", notebook |-> target]
    ELSE [result |-> "saved",
          notebook |-> [exists |-> TRUE, cells |-> target.cells,
                        metadata |-> submission_metadata(
                            DictSet(IF target.metadata.judge_submission = <<>> THEN <<>>
                                    ELSE target.metadata.judge_submission[1].exercises,
                                    ex.key, ex.version), TRUE)]]

\* create_redirect_form on the target notebook (absent, or [cells, metadata]):
\* [result, notebook], the notebook saved when result = "saved"
create_redirect_form(ex, target) ==
    IF ~target.exists THEN [result |-> "file_not_found", notebook |-> target]
    ELSE IF ~HasAnswerCell(ex.key, target.cells)
    THEN [result |-> "no_answer_cell", notebook |-> target]
    ELSE [result |-> "saved",
          notebook |-> [exists |-> TRUE, cells |-> target.cells,
                        metadata |-> submission_metadata(<<[k |-> ex.key, v |-> ex.version]>>, TRUE)]]

NoNotebook == [exists |-> FALSE, cells |-> <<>>, metadata |-> COMMON_METADATA]
Notebook(cells, metadata) == [exists |-> TRUE, cells |-> cells, metadata |-> metadata]

RdKeys == {<<"d", "-", "1">>, <<"d", ".", "1">>}

\* the banner cell of key k as a saved form holds it
BannerCell(k) ==
    to_ipynb(submission_cell([key |-> k, student_code_cell |-> CodePass]))

RdPalette ==
    { BannerCell(<<"d", "-", "1">>), BannerCell(<<"d", ".", "1">>), BannerCell(<<"d", "x", "1">>),
      to_ipynb(Cell(MARKDOWN, <<"<", "[", " ", "d", "-", "1", " ", "]", ">", "\n", "<", "[", " ", "d", ".", "1", " ", "]", ">">>)),
      to_ipynb(CodePass) }

RdTargets ==
    {NoNotebook} \cup
    {Notebook(cells, m) :
        cells \in UNION {[1..n -> RdPalette] : n \in 0..MaxTargetCells},
        m \in {COMMON_METADATA,
               submission_metadata(<<[k |-> <<"d", "-", "0">>, v |-> LiteralVersion("v0")]>>, FALSE),
               master_metadata(<<"d", "-", "0">>, TRUE, LiteralVersion("v0"), <<"T">>, "no deadlines")}}

RdExercises ==
    {ExerciseRecord(k, LiteralVersion("v1"), <<MdHeading>>,
                    Cell(CODE, <<"#", " ", "r", "e", "d", "i", "r", "e", "c", "t", "-", "t", "o", ":", " ", "D", ".", "i", "p", "y", "n", "b">>), <<>>, <<>>) : k \in RdKeys}

\* the redirecting exercises of a bundle, at most MaxRedirects of them, of different keys
MaxRedirects == 2

RdBundles ==
    {b \in UNION {[1..n -> RdExercises] : n \in 1..MaxRedirects} :
        \A i, j \in 1..Len(b) : b[i].key = b[j].key => i = j}

\* create_redirect_form(ex), for the next redirecting exercise of the bundle: target is the
\* document before the call, after the document after it
RdCreateRedirectForm ==
    /\ rd.status \in {"start", "saved"}
    /\ rd.todo # <<>>
    /\ LET r == create_redirect_form(Head(rd.todo), rd.after)
       IN  rd' = [rd EXCEPT !.status = r.result, !.ex = Head(rd.todo), !.target = rd.after,
                            !.after = r.notebook, !.todo = Tail(rd.todo),
                            !.calls = @ + 1]
    /\ UNCHANGED <<seg, ld, rc, vr, sm, mainVars>>
----------------------------------------------------------------------------
(* Spec: a run of main. The inputs: two directories of masters on disk and the sources
   named on the command line *)

SEP == "/"

\* the index of the last "/" of p, 0 when there is none
LastSep(p) == Max({0} \cup {i \in 1..Len(p) : p[i] = SEP})

\* os.path.basename(p)
Basename(p) == SubSeq(p, LastSep(p) + 1, Len(p))

\* os.path.splitext(filename)[0]: the extension starts at the last dot that follows a
\* character other than a dot
SplitExtRoot(filename) ==
    LET dots == {i \in 2..Len(filename) :
                    /\ filename[i] = DOT
                    /\ \E j \in 1..(i - 1) : filename[j] # DOT}
    IN  IF dots = {} THEN filename ELSE SubSeq(filename, 1, Max(dots) - 1)

MaxSources == 3
MaxDeviating == 1

\* the masters on disk: directory d holds d-1 and d-1-a, directory a holds d-1 and e
MainMasters == {<<"a", "/", "d", "-", "1", ".", "i", "p", "y", "n", "b">>, <<"a", "/", "e", ".", "i", "p", "y", "n", "b">>, <<"d", "/", "d", "-", "1", "-", "a", ".", "i", "p", "y", "n", "b">>, <<"d", "/", "d", "-", "1", ".", "i", "p", "y", "n", "b">>}

\* what -s can name: the directory d, single masters, and a file that is no notebook
SourceCandidates ==
    {<<"a", "/", "d", "-", "1", ".", "i", "p", "y", "n", "b">>, <<"a", "/", "e", ".", "i", "p", "y", "n", "b">>, <<"d">>, <<"d", "/", "d", "-", "1", ".", "i", "p", "y", "n", "b">>, <<"n", ".", "t", "x", "t">>}

SourceLists == UNION {[1..n -> SourceCandidates] : n \in 0..MaxSources}

\* the structural rules of load_exercise a master can break
MalformedKinds == {"segmentation", "cardinality", "cell_kind", "heading", "file_name"}

\* what a master is made as: well-formed ("good"); breaking one rule load_exercise checks;
\* with two cells in the section of SYSTEM_TEST_CASES_EXECUTE_CELL, which the schema
\* gives SINGLE | CODE; redirecting to a notebook made by hand ("redirect") or to the form
\* of another master of its directory ("redirect_form"), which holds the answer cell of
\* the redirecting exercise in its student code cell ("host")
MasterKinds ==
    {"good", "redirect", "redirect_form", "host", "execute_cells"} \cup MalformedKinds

RedirectingCell == Cell(CODE, <<"#", " ", "r", "e", "d", "i", "r", "e", "c", "t", "-", "t", "o", ":", " ", "D", ".", "i", "p", "y", "n", "b">>)

\* the masters that redirect to a form of the run: a/e to the single form of a/d-1, d/d-1-a
\* to the bundled form of directory d, which holds the section of d/d-1
FormRedirects ==
    {[master |-> <<"a", "/", "e", ".", "i", "p", "y", "n", "b">>, key |-> <<"e">>, host |-> <<"a", "/", "d", "-", "1", ".", "i", "p", "y", "n", "b">>,
      form |-> <<"f", "o", "r", "m", "_", "d", "-", "1", ".", "i", "p", "y", "n", "b">>],
     [master |-> <<"d", "/", "d", "-", "1", "-", "a", ".", "i", "p", "y", "n", "b">>, key |-> <<"d", "-", "1", "-", "a">>, host |-> <<"d", "/", "d", "-", "1", ".", "i", "p", "y", "n", "b">>,
      form |-> <<"f", "o", "r", "m", "_", "d", ".", "i", "p", "y", "n", "b">>]}

FormRedirectOf(path) == CHOOSE r \in FormRedirects : r.master = path
FormRedirectTo(path) == CHOOSE r \in FormRedirects : r.host = path

\* the student code cell of a host: code, and the marker of the exercise it answers too
HostCell(key) == Cell(CODE, <<"p", "a", "s", "s", " ", " ", "#", " ">> \o MARKER_OPEN \o key \o MARKER_CLOSE)

\* the cells of a master of each kind: the well-formed LdBase, with one section changed
KindCells(path, kind) ==
    IF kind = "segmentation" THEN <<CodePass>> \o LdCells(LdBase, 1)
    ELSE IF kind = "redirect"
    THEN LdCells([LdBase EXCEPT !.STUDENT_CODE_CELL = Group(<<RedirectingCell>>)], 1)
    ELSE IF kind = "redirect_form"
    THEN LdCells([LdBase EXCEPT !.STUDENT_CODE_CELL =
                      Group(<<Cell(CODE, <<"#", " ", "r", "e", "d", "i", "r", "e", "c", "t", "-", "t", "o", ":", " ">> \o FormRedirectOf(path).form)>>)],
                 1)
    ELSE IF kind = "host"
    THEN LdCells([LdBase EXCEPT !.STUDENT_CODE_CELL =
                      Group(<<HostCell(FormRedirectTo(path).key)>>)], 1)
    ELSE IF kind = "execute_cells"
    THEN LdCells([LdBase EXCEPT !.SYSTEM_TEST_CASES_EXECUTE_CELL =
                      Group(<<CodePass, CodePass>>)], 1)
    ELSE IF kind = "cardinality"
    THEN LdCells([LdBase EXCEPT !.STUDENT_CODE_CELL = Group(<<CodePass, CodePass>>)], 1)
    ELSE IF kind = "cell_kind"
    THEN LdCells([LdBase EXCEPT !.STUDENT_CODE_CELL = Group(<<MdHeading>>)], 1)
    ELSE IF kind = "heading"
    THEN LdCells([LdBase EXCEPT !.CONTENT = Group(<<CodePass>>)], 1)
    ELSE IF kind = "file_name"
    THEN LdCells([LdBase EXCEPT !.SYSTEM_TEST_CASES = Group(<<CodePass>>)], 1)
    ELSE LdCells(LdBase, 1)

\* the master at path as it lies on disk, released before at version v1
MasterNotebook(path, kind) ==
    Notebook(ToIpynbAll(KindCells(path, kind)),
                 master_metadata(SplitExtRoot(Basename(path)), TRUE, LiteralVersion("v1"),
                                 <<"T">>, "no deadlines"))

\* the masters whose redirection names a notebook that holds their answer cell
Redirectable == {<<"a", "/", "e", ".", "i", "p", "y", "n", "b">>, <<"d", "/", "d", "-", "1", "-", "a", ".", "i", "p", "y", "n", "b">>}

\* the masters of an assignment of kinds that are neither good nor a host
Deviating(k) == {p \in MainMasters : k[p] \notin {"good", "host"}}

\* at most MaxDeviating masters deviate; a host comes with the master that redirects to
\* its form, and only with it
MainKinds ==
    {k \in [MainMasters -> MasterKinds] :
        /\ Cardinality(Deviating(k)) <= MaxDeviating
        /\ \A p \in MainMasters : k[p] \in {"redirect", "redirect_form"} => p \in Redirectable
        /\ \A p \in MainMasters :
               k[p] = "host" <=> \E r \in FormRedirects :
                                    r.host = p /\ k[r.master] = "redirect_form"}

\* the notebooks the redirecting masters name: a/D.ipynb holds the answer cell of e,
\* d/D.ipynb the answer cell of d-1-a
RedirectTargets ==
    <<[k |-> <<"a", "/", "D", ".", "i", "p", "y", "n", "b">>, v |-> Notebook(<<BannerCell(<<"e">>)>>, COMMON_METADATA)],
      [k |-> <<"d", "/", "D", ".", "i", "p", "y", "n", "b">>, v |-> Notebook(<<BannerCell(<<"d", "-", "1", "-", "a">>)>>, COMMON_METADATA)]>>

\* the JSON files -c can name, as json.load returns them: the parameters of the judge with
\* an override for d-1, and a file without the key 'override'
JUDGE_ENV == <<"j", "u", "d", "g", "e", "_", "e", "n", "v", ".", "j", "s", "o", "n">>
JUDGE_ENV_PARTIAL == <<"j", "u", "d", "g", "e", "_", "e", "n", "v", "_", "p", "a", "r", "t", "i", "a", "l", ".", "j", "s", "o", "n">>
JudgeDefault ==
    <<[k |-> <<"e", "n", "v", "i", "r", "o", "n", "m", "e", "n", "t">>, v |-> <<"p", "y">>], [k |-> <<"t", "i", "m", "e", "_", "l", "i", "m", "i", "t">>, v |-> <<"2">>],
      [k |-> <<"m", "e", "m", "o", "r", "y", "_", "l", "i", "m", "i", "t">>, v |-> <<"2", "5", "6">>], [k |-> <<"c", "o", "m", "m", "e", "n", "t">>, v |-> <<"c">>]>>
JudgeEnvFiles ==
    <<[k |-> JUDGE_ENV,
       v |-> <<[k |-> <<"d", "e", "f", "a", "u", "l", "t">>, v |-> JudgeDefault],
               [k |-> <<"o", "v", "e", "r", "r", "i", "d", "e">>,
                v |-> <<[k |-> <<"d", "-", "1">>,
                         v |-> <<[k |-> <<"t", "i", "m", "e", "_", "l", "i", "m", "i", "t">>, v |-> <<"5">>],
                                 [k |-> <<"c", "o", "m", "m", "e", "n", "t">>, v |-> <<"c">>]>>]>>]>>],
      [k |-> JUDGE_ENV_PARTIAL, v |-> <<[k |-> <<"d", "e", "f", "a", "u", "l", "t">>, v |-> JudgeDefault]>>]>>

IntroNotebook ==
    Notebook(ToIpynbAll(<<Cell(MARKDOWN, <<"#", " ", "I", "n", "t", "r", "o", "\n">>)>>), COMMON_METADATA)

INTRODUCTION_FILE == <<"i", "n", "t", "r", "o", ".", "i", "p", "y", "n", "b">>

DiskDeviations(d) == Cardinality(Deviating(d.kinds)) + (IF d.intro THEN 0 ELSE 1)

\* The disk before the run: what each master was made as, and whether directory d holds
\* an introduction; a directory d without one counts among the deviations, as a
\* deviating master does
Disks ==
    {d \in {[kinds |-> k, intro |-> i] : k \in MainKinds, i \in BOOLEAN} :
        DiskDeviations(d) <= MaxDeviating}

DiskPaths(d) ==
    MainMasters \cup DictKeys(RedirectTargets) \cup DictKeys(JudgeEnvFiles)
    \cup (IF d.intro THEN {<<"d", "/">> \o INTRODUCTION_FILE} ELSE {})

DiskFile(d, path) ==
    IF path \in MainMasters THEN MasterNotebook(path, d.kinds[path])
    ELSE IF path \in DictKeys(RedirectTargets) THEN DictGet(RedirectTargets, path)
    ELSE IF path \in DictKeys(JudgeEnvFiles)
    THEN Notebook(<<DictGet(JudgeEnvFiles, path)>>, COMMON_METADATA)
    ELSE IntroNotebook

----------------------------------------------------------------------------
(* Spec: a run of main. Paths, the file system, load_sources *)

CONF_DIR == <<"a", "u", "t", "o", "g", "r", "a", "d", "e">>
\* the characters a path of the model is made of, in the order of their code points
PATH_CHARS == <<"-", ".", "/", "0", "1", "2", "3", "4", "5", "6", "7", "8", "9", "A", "B", "C", "D", "E", "F", "G", "H", "I", "J", "K", "L", "M", "N", "O", "P", "Q", "R", "S", "T", "U", "V", "W", "X", "Y", "Z", "_", "a", "b", "c", "d", "e", "f", "g", "h", "i", "j", "k", "l", "m", "n", "o", "p", "q", "r", "s", "t", "u", "v", "w", "x", "y", "z">>

\* the rank of a character among PATH_CHARS, which orders as ord() does
Ord(c) == CHOOSE i \in 1..Len(PATH_CHARS) : PATH_CHARS[i] = c

\* a < b for two str: the first differing character decides, a proper prefix is smaller
StrLess(a, b) ==
    \E i \in 1..(Len(b)) :
        /\ i <= Len(a) + 1
        /\ \A j \in 1..(i - 1) : a[j] = b[j]
        /\ (i = Len(a) + 1 \/ Ord(a[i]) < Ord(b[i]))

\* sorted(xs) for a list of str
RECURSIVE Sorted(_)
Sorted(xs) ==
    IF xs = <<>> THEN <<>>
    ELSE LET m == CHOOSE i \in 1..Len(xs) : \A j \in 1..Len(xs) : ~StrLess(xs[j], xs[i])
         IN  <<xs[m]>> \o Sorted(SubSeq(xs, 1, m - 1) \o SubSeq(xs, m + 1, Len(xs)))

\* a set of str as a list, in ascending order
RECURSIVE SortedSet(_)
SortedSet(S) ==
    IF S = {} THEN <<>>
    ELSE LET m == CHOOSE x \in S : \A y \in S : ~StrLess(y, x)
         IN  <<m>> \o SortedSet(S \ {m})

\* os.path.join(a, b) for a relative b
PathJoin(a, b) ==
    IF a = <<>> THEN b
    ELSE IF a[Len(a)] = SEP THEN a \o b
    ELSE a \o <<SEP>> \o b

\* os.path.split(p), for paths without doubled or leading separators
PathSplit(p) ==
    [head |-> SubSeq(p, 1, LastSep(p) - 1), tail |-> Basename(p)]

\* The file system: the disk as it was before the run, and over it the files the run
\* has written, a dict from path to what the file holds. A notebook is
\* [exists, cells, metadata]; any other file is held as a notebook of one text
FileSystem(d, over) == [disk |-> d, over |-> over]
TextFile(text) == Notebook(<<text>>, COMMON_METADATA)

FsPaths(fsys) == DictKeys(fsys.over) \cup DiskPaths(fsys.disk)

\* ipynb_util.load_cells(path): the notebook at path, NoNotebook for FileNotFoundError
load_cells(fsys, path) ==
    IF path \in DictKeys(fsys.over) THEN DictGet(fsys.over, path)
    ELSE IF path \in DiskPaths(fsys.disk) THEN DiskFile(fsys.disk, path)
    ELSE NoNotebook

\* ipynb_util.normalized_cells(raw_cells): (kind, text) of every cell
normalized_cells(raw_cells) ==
    [i \in 1..Len(raw_cells) |-> Cell(raw_cells[i].cell_type, Concat(raw_cells[i].source))]

\* os.path.isdir(path): some file lies below path
IsDir(fsys, path) == {k \in FsPaths(fsys) : StartsWith(k, path \o <<SEP>>)} # {}

\* os.listdir(dirpath), for a directory that holds files only
ListDir(fsys, dirpath) ==
    {SubSeq(k, Len(dirpath) + 2, Len(k)) :
        k \in {x \in FsPaths(fsys) :
                  /\ StartsWith(x, dirpath \o <<SEP>>)
                  /\ \A i \in (Len(dirpath) + 2)..Len(x) : x[i] # SEP}}

\* re.fullmatch(fr'({dirname}[-_].*)\.ipynb', nb) for a dirname of letters and digits:
\* the group, None without a match
DirEntryKey(dirname, nb) ==
    IF /\ Len(nb) >= Len(dirname) + 1 + Len(DOT_IPYNB)
       /\ StartsWith(nb, dirname)
       /\ nb[Len(dirname) + 1] \in {"-", "_"}
       /\ EndsWith(nb, DOT_IPYNB)
       /\ \A i \in 1..Len(nb) : nb[i] # "\n"
    THEN SubSeq(nb, 1, Len(nb) - Len(DOT_IPYNB))
    ELSE None

\* The mutant of KeyRegistered that never finds a key
KeyNeverRegistered(exercise_key, keys) == FALSE

\* exercise_key in existing_keys
KeyRegistered(exercise_key, keys) == exercise_key \in DictKeys(keys)

\* load_exercise on the notebook nb that load_cells returned
LoadNotebook(dirpath, exercise_key, nb, interp) ==
    IF ~nb.exists THEN [ok |-> FALSE, err |-> "file_not_found", exercise |-> <<>>]
    ELSE load_exercise(dirpath, exercise_key,
                       [cells |-> normalized_cells(nb.cells), metadata |-> nb.metadata],
                       interp)

\* master_loader(dirpath, exercise_key) = load_exercise, on the file system; interp is what
\* the interpreter does with a setting program the model of exec leaves open
MasterLoader(fsys, dirpath, exercise_key, interp) ==
    LoadNotebook(dirpath, exercise_key,
                 load_cells(fsys, PathJoin(dirpath, exercise_key \o DOT_IPYNB)), interp)

\* bundles[dirpath].append(exercise) on a defaultdict(list)
BundleAppend(bs, dirpath, exercise) ==
    DictSet(bs, dirpath,
            (IF dirpath \in DictKeys(bs) THEN DictGet(bs, dirpath) ELSE <<>>) \o <<exercise>>)

PathItem(path) == [type |-> "path", dirpath |-> <<>>, name |-> path]
EntryItem(dirpath, nb) == [type |-> "entry", dirpath |-> dirpath, name |-> nb]

\* for path in sorted(source_paths): a directory; its sorted listing comes next
MainLoadDir ==
    /\ pc = "load"
    /\ todo # <<>>
    /\ todo[1].type = "path"
    /\ IsDir(FileSystem(disk, fs), todo[1].name)
    /\ LET listing == SortedSet(ListDir(FileSystem(disk, fs), todo[1].name))
       IN  todo' = [i \in 1..Len(listing) |-> EntryItem(todo[1].name, listing[i])]
                   \o Tail(todo)
    /\ UNCHANGED <<pc, fs, args, existing_keys, disk, loads, cursor, abort, bundles,
                   separates, written>>
    /\ UNCHANGED <<seg, ld, rc, rd, vr, sm, judge_parameters>>

\* for nb in sorted(os.listdir(dirpath)): one name of the listing
MainLoadEntry ==
    /\ pc = "load"
    /\ todo # <<>>
    /\ todo[1].type = "entry"
    /\ LET dirpath == todo[1].dirpath
           nb == todo[1].name
           exercise_key == DirEntryKey(Basename(dirpath), nb)
       IN  IF exercise_key = None
           THEN /\ todo' = Tail(todo)
                /\ UNCHANGED <<pc, existing_keys, loads, cursor, abort, bundles>>
           ELSE IF KeyRegistered(exercise_key, existing_keys)
           THEN /\ pc' = "aborted"
                /\ abort' = "key_conflict"
                /\ cursor' = cursor + 1
                /\ UNCHANGED <<todo, existing_keys, loads, bundles>>
           ELSE /\ existing_keys' = DictSet(existing_keys, exercise_key, PathJoin(dirpath, nb))
                /\ loads' = Append(loads, [visit |-> cursor + 1, path |-> PathJoin(dirpath, nb)])
                /\ cursor' = cursor + 1
                /\ \E r \in {MasterLoader(FileSystem(disk, fs), dirpath, exercise_key, interp) :
                               interp \in BOOLEAN} :
                       IF r.ok
                       THEN /\ bundles' = BundleAppend(bundles, dirpath, r.exercise)
                            /\ todo' = Tail(todo)
                            /\ UNCHANGED <<pc, abort>>
                       ELSE /\ pc' = "aborted"
                            /\ abort' = r.err
                            /\ UNCHANGED <<todo, bundles>>
    /\ UNCHANGED <<fs, args, disk, separates, written>>
    /\ UNCHANGED <<seg, ld, rc, rd, vr, sm, judge_parameters>>

\* for path in sorted(source_paths): a path that is no directory
MainLoadFile ==
    /\ pc = "load"
    /\ todo # <<>>
    /\ todo[1].type = "path"
    /\ ~IsDir(FileSystem(disk, fs), todo[1].name)
    /\ LET filepath == todo[1].name
           dirpath == PathSplit(filepath).head
           exercise_key == SplitExtRoot(PathSplit(filepath).tail)
       IN  IF ~EndsWith(filepath, DOT_IPYNB)
           THEN /\ todo' = Tail(todo)
                /\ UNCHANGED <<pc, existing_keys, loads, cursor, abort, separates>>
           ELSE IF KeyRegistered(exercise_key, existing_keys)
           THEN /\ pc' = "aborted"
                /\ abort' = "key_conflict"
                /\ cursor' = cursor + 1
                /\ UNCHANGED <<todo, existing_keys, loads, separates>>
           ELSE /\ existing_keys' = DictSet(existing_keys, exercise_key, filepath)
                /\ loads' = Append(loads, [visit |-> cursor + 1, path |-> filepath])
                /\ cursor' = cursor + 1
                /\ \E r \in {MasterLoader(FileSystem(disk, fs), dirpath, exercise_key, interp) :
                               interp \in BOOLEAN} :
                       IF r.ok
                       THEN /\ separates' = Append(separates, r.exercise)
                            /\ todo' = Tail(todo)
                            /\ UNCHANGED <<pc, abort>>
                       ELSE /\ pc' = "aborted"
                            /\ abort' = r.err
                            /\ UNCHANGED <<todo, separates>>
    /\ UNCHANGED <<fs, args, disk, bundles, written>>
    /\ UNCHANGED <<seg, ld, rc, rd, vr, sm, judge_parameters>>

\* return exercises, bundles; main goes on to cleanup_exercise_masters
MainLoadReturn ==
    /\ pc = "load"
    /\ todo = <<>>
    /\ pc' = "cleanup"
    /\ cursor' = 1
    /\ UNCHANGED <<fs, args, todo, existing_keys, disk, loads, abort, bundles, separates,
                   written>>
    /\ UNCHANGED <<seg, ld, rc, rd, vr, sm, judge_parameters>>
----------------------------------------------------------------------------
(* Spec: a run of main. The writers *)

\* the master document of an exercise
MasterPath(ex) == PathJoin(ex.dirpath, ex.key \o DOT_IPYNB)

\* list(itertools.chain(*bundles.values(), separates))
RECURSIVE BundleValues(_)
BundleValues(bs) == IF bs = <<>> THEN <<>> ELSE bs[1].v \o BundleValues(Tail(bs))

Chain(bs, seps) == BundleValues(bs) \o seps

\* What the writers of a run have done so far: the file system, the files written in
\* the order of their writing, and the error that stopped them
Io(d, over, log) == [fs |-> FileSystem(d, over), written |-> log, err |-> ""]

\* save_as_notebook / open(...).write at the named site of the program, for the
\* exercises whose master documents the file derives from
Save(io, path, site, exs, file) ==
    [io EXCEPT !.fs.over = DictSet(@, path, file),
               !.written = Append(@, [path |-> path, site |-> site,
                                      masters |-> {MasterPath(exs[i]) : i \in 1..Len(exs)},
                                      file |-> file])]

Raise(io, err) == [io EXCEPT !.err = err]

\* exercise.version = ... of cleanup_exercise_masters
Renew(ex, renew_version) == [ex EXCEPT !.version = RenewedVersion(ex, renew_version)]

RenewAll(exs, renew_version) == [i \in 1..Len(exs) |-> Renew(exs[i], renew_version)]

\* Cell(cell_type, source.strip()).to_ipynb() for every cell
StrippedCells(cells) ==
    [i \in 1..Len(cells) |-> to_ipynb(Cell(cells[i].cell_type, Strip(cells[i].source)))]

\* the end of one iteration of cleanup_exercise_masters, no deadline file given: nb is
\* what load_cells returned, renewed the exercise with its version renewed
CleanupSave(io, filepath, nb, renewed) ==
    Save(io, filepath, "master", <<renewed>>,
         Notebook(StrippedCells(normalized_cells(nb.cells)),
                  master_metadata(renewed.key, TRUE, renewed.version, renewed.title,
                                  master_metadata_deadlines(nb.metadata))))

\* one iteration of cleanup_exercise_masters
CleanupOne(io, exercise, renew_version) ==
    CleanupSave(io, MasterPath(exercise), load_cells(io.fs, MasterPath(exercise)),
                Renew(exercise, renew_version))

RECURSIVE CleanupAll(_, _, _)
CleanupAll(io, exs, renew_version) ==
    IF exs = <<>> THEN io
    ELSE CleanupAll(CleanupOne(io, exs[1], renew_version), Tail(exs), renew_version)

\* cleanup_exercise_masters(exercises, commandline_options)
MainCleanup ==
    /\ pc = "cleanup"
    /\ \E io \in {CleanupAll(Io(disk, fs, written), Chain(bundles, separates),
                             args.renew_version)} :
           /\ fs' = io.fs.over
           /\ written' = io.written
    /\ bundles' = [i \in 1..Len(bundles) |->
                      [k |-> bundles[i].k, v |-> RenewAll(bundles[i].v, args.renew_version)]]
    /\ separates' = RenewAll(separates, args.renew_version)
    /\ pc' = "bundled"
    /\ cursor' = 1
    /\ UNCHANGED <<args, todo, existing_keys, disk, loads, abort>>
    /\ UNCHANGED <<seg, ld, rc, rd, vr, sm, judge_parameters>>

\* the cells of the answer key of one exercise
AnswerBody(ex) ==
    ex.content \o ex.answer_examples \o <<summarize_testcases(ex)>> \o ex.explanation

\* the cells of the form of one exercise
FormBody(ex) == ex.content \o <<submission_cell(ex)>> \o ex.student_tests

RECURSIVE AnswerBodies(_)
AnswerBodies(exs) == IF exs = <<>> THEN <<>> ELSE AnswerBody(exs[1]) \o AnswerBodies(Tail(exs))

RECURSIVE FormBodies(_)
FormBodies(exs) == IF exs = <<>> THEN <<>> ELSE FormBody(exs[1]) \o FormBodies(Tail(exs))

\* {ex.key: ex.version for ex in exercises} of create_filled_form
FilledKeyToVer(exs) == [i \in 1..Len(exs) |-> [k |-> exs[i].key, v |-> exs[i].version]]

\* {ex.key: ex.version for ex in exercises if ex.submission_redirection() is None}, the
\* keys of exercises being distinct
KeyToVer(exs) ==
    LET kept == SelectSeq(exs, LAMBDA ex : submission_redirection(ex) = None)
    IN  [i \in 1..Len(kept) |-> [k |-> kept[i].key, v |-> kept[i].version]]

\* the end of create_redirect_form: r is what the check of the target gave
RedirectSave(io, ex, filepath, r) ==
    IF r.result = "saved" THEN Save(io, filepath, "redirect", <<ex>>, r.notebook)
    ELSE Raise(io, r.result)

RedirectAt(io, ex, filepath) ==
    RedirectSave(io, ex, filepath, create_redirect_form(ex, load_cells(io.fs, filepath)))

\* create_redirect_form(exercise) on the file system
RedirectForm(io, ex) == RedirectAt(io, ex, PathJoin(ex.dirpath, submission_redirection(ex)))

\* for ex in exercises: if ex.submission_redirection(): create_redirect_form(ex)
RECURSIVE RedirectForms(_, _)
RedirectForms(io, exs) ==
    IF exs = <<>> \/ io.err # "" THEN io
    ELSE IF submission_redirection(exs[1]) = None THEN RedirectForms(io, Tail(exs))
    ELSE RedirectForms(RedirectForm(io, exs[1]), Tail(exs))

\* the introduction of a bundle
Introduction(fsys, dirpath) ==
    LET nb == load_cells(fsys, PathJoin(dirpath, INTRODUCTION_FILE))
    IN  IF nb.exists THEN normalized_cells(nb.cells)
        ELSE <<Cell(MARKDOWN, <<"#", " ">> \o Basename(dirpath))>>

\* contents.pop() of summarize_testcases raises for an exercise without test cases
SummaryRaises(exs) == \E i \in 1..Len(exs) : exs[i].system_test_cases = <<>>

\* the writes of one iteration of create_bundled_forms
BundledSave(io, dirpath, dirname, intro, exercises) ==
    RedirectForms(
        Save(Save(io, PathJoin(dirpath, <<"a", "n", "s", "_">> \o dirname \o DOT_IPYNB), "bundled_answer",
                  exercises,
                  Notebook(ToIpynbAll(intro \o AnswerBodies(exercises)), COMMON_METADATA)),
             PathJoin(dirpath, <<"f", "o", "r", "m", "_">> \o dirname \o DOT_IPYNB), "bundled_form", exercises,
             Notebook(ToIpynbAll(intro \o FormBodies(exercises)),
                      submission_metadata(KeyToVer(exercises), TRUE))),
        exercises)

\* one iteration of create_bundled_forms
BundledForms(io, dirpath, exercises) ==
    IF SummaryRaises(exercises) THEN Raise(io, "pop_from_empty_list")
    ELSE BundledSave(io, dirpath, Basename(dirpath), Introduction(io.fs, dirpath), exercises)

\* create_bundled_forms(bundles): the bundle at cursor
MainBundledForms ==
    /\ pc = "bundled"
    /\ cursor <= Len(bundles)
    /\ \E io \in {BundledForms(Io(disk, fs, written), bundles[cursor].k, bundles[cursor].v)} :
           /\ fs' = io.fs.over
           /\ written' = io.written
           /\ abort' = io.err
           /\ pc' = IF io.err # "" THEN "aborted" ELSE pc
    /\ cursor' = cursor + 1
    /\ UNCHANGED <<args, todo, existing_keys, disk, loads, bundles, separates>>
    /\ UNCHANGED <<seg, ld, rc, rd, vr, sm, judge_parameters>>

\* the pseudo-form of a redirecting exercise, after create_redirect_form left io2
PseudoForm(io2, ex, cells) ==
    IF io2.err # "" THEN io2
    ELSE Save(io2, PathJoin(ex.dirpath, <<"p", "s", "e", "u", "d", "o", "-", "f", "o", "r", "m", "_">> \o ex.key \o DOT_IPYNB),
              "pseudo_form", <<ex>>, Notebook(cells, COMMON_METADATA))

\* # Create form, of create_single_forms
SingleForm(io1, ex, cells) ==
    IF submission_redirection(ex) = None
    THEN Save(io1, PathJoin(ex.dirpath, <<"f", "o", "r", "m", "_">> \o ex.key \o DOT_IPYNB), "single_form",
              <<ex>>,
              Notebook(cells, submission_metadata(<<[k |-> ex.key, v |-> ex.version]>>, TRUE)))
    ELSE PseudoForm(RedirectForm(io1, ex), ex, cells)

\* one iteration of create_single_forms
SingleForms(io, ex) ==
    IF SummaryRaises(<<ex>>) THEN Raise(io, "pop_from_empty_list")
    ELSE SingleForm(Save(io, PathJoin(ex.dirpath, <<"a", "n", "s", "_">> \o ex.key \o DOT_IPYNB),
                         "single_answer", <<ex>>,
                         Notebook(ToIpynbAll(AnswerBody(ex)), COMMON_METADATA)),
                    ex, ToIpynbAll(FormBody(ex)))

\* create_single_forms(separates): the exercise at cursor
MainSingleForms ==
    /\ pc = "single"
    /\ cursor <= Len(separates)
    /\ \E io \in {SingleForms(Io(disk, fs, written), separates[cursor])} :
           /\ fs' = io.fs.over
           /\ written' = io.written
           /\ abort' = io.err
           /\ pc' = IF io.err # "" THEN "aborted" ELSE pc
    /\ cursor' = cursor + 1
    /\ UNCHANGED <<args, todo, existing_keys, disk, loads, bundles, separates>>
    /\ UNCHANGED <<seg, ld, rc, rd, vr, sm, judge_parameters>>

\* shutil.rmtree(CONF_DIR, ignore_errors=True), the disk holding nothing below CONF_DIR
\* before the run
RmTree(over, dirpath) == SelectSeq(over, LAMBDA it : ~StartsWith(it.k, dirpath \o <<SEP>>))

\* the files of the test cases of create_exercise_configuration
RECURSIVE SaveTestCases(_, _, _)
SaveTestCases(io, ex, cases) ==
    IF cases = <<>> THEN io
    ELSE SaveTestCases(Save(io, PathJoin(PathJoin(CONF_DIR, ex.key), cases[1].name),
                            "test_case", <<ex>>, TextFile(cases[1].content)),
                       ex, Tail(cases))

\* bool(x) of an option that is None or a str
Truthy(x) == x # None /\ x # <<>>

JUDGE_PARAMS == <<<<"e", "n", "v", "i", "r", "o", "n", "m", "e", "n", "t">>, <<"t", "i", "m", "e", "_", "l", "i", "m", "i", "t">>, <<"m", "e", "m", "o", "r", "y", "_", "l", "i", "m", "i", "t">>>>

\* {k: d[k] for k in params if k in d}
ParamsIn(d) ==
    LET kept == SelectSeq(JUDGE_PARAMS, LAMBDA k : k \in DictKeys(d))
    IN  [i \in 1..Len(kept) |-> [k |-> kept[i], v |-> DictGet(d, kept[i])]]

\* the assignment to cls.judge_parameters, judge_env being what json.load returned
JudgeParametersOf(judge_env) ==
    IF \/ <<"d", "e", "f", "a", "u", "l", "t">> \notin DictKeys(judge_env)
       \/ \E i \in 1..Len(JUDGE_PARAMS) :
              JUDGE_PARAMS[i] \notin DictKeys(DictGet(judge_env, <<"d", "e", "f", "a", "u", "l", "t">>))
       \/ <<"o", "v", "e", "r", "r", "i", "d", "e">> \notin DictKeys(judge_env)
    THEN [err |-> "key_error", params |-> None]
    ELSE [err |-> "",
          params |->
              [default |-> ParamsIn(DictGet(judge_env, <<"d", "e", "f", "a", "u", "l", "t">>)),
               override |->
                   [i \in 1..Len(DictGet(judge_env, <<"o", "v", "e", "r", "r", "i", "d", "e">>)) |->
                       [k |-> DictGet(judge_env, <<"o", "v", "e", "r", "r", "i", "d", "e">>)[i].k,
                        v |-> ParamsIn(DictGet(judge_env, <<"o", "v", "e", "r", "r", "i", "d", "e">>)[i].v)]]]]

\* Exercise.load_judge_parameters(json_path): [err, params]; open raises FileNotFoundError
\* for a path without a file, the subscripts raise KeyError
load_judge_parameters(fsys, json_path) ==
    IF ~load_cells(fsys, json_path).exists THEN [err |-> "file_not_found", params |-> None]
    ELSE JudgeParametersOf(load_cells(fsys, json_path).cells[1])

\* the params of generate_setting: the default of every parameter, or the override the
\* key of the exercise has for it
SettingParams(ex, jp) ==
    [i \in 1..Len(jp.default) |->
        [k |-> jp.default[i].k,
         v |-> IF /\ ex.key \in DictKeys(jp.override)
                  /\ jp.default[i].k \in DictKeys(DictGet(jp.override, ex.key))
               THEN DictGet(DictGet(jp.override, ex.key), jp.default[i].k)
               ELSE jp.default[i].v]]

\* exercise.generate_setting(): what system_test_setting is called with
generate_setting(ex, jp) ==
    [environment |-> DictGet(SettingParams(ex, jp), <<"e", "n", "v", "i", "r", "o", "n", "m", "e", "n", "t">>),
     time_limit |-> DictGet(SettingParams(ex, jp), <<"t", "i", "m", "e", "_", "l", "i", "m", "i", "t">>),
     memory_limit |-> DictGet(SettingParams(ex, jp), <<"m", "e", "m", "o", "r", "y", "_", "l", "i", "m", "i", "t">>),
     key |-> ex.key, version |-> ex.version, source |-> ex.student_code_cell.source]

\* create_exercise_configuration(exercise), the setting requiring no further file
ExerciseConfiguration(io, ex, jp) ==
    SaveTestCases(
        Save(Save(io, PathJoin(CONF_DIR, ex.key \o DOT_IPYNB), "configuration", <<ex>>,
                  Notebook(ToIpynbAll(ex.content \o <<ex.student_code_cell>>),
                           load_cells(io.fs, MasterPath(ex)).metadata)),
             PathJoin(PathJoin(CONF_DIR, ex.key), <<"s", "e", "t", "t", "i", "n", "g", ".", "j", "s", "o", "n">>), "setting", <<ex>>,
             TextFile(generate_setting(ex, jp))),
        ex, ex.system_test_cases)

RECURSIVE ExerciseConfigurations(_, _, _)
ExerciseConfigurations(io, exs, jp) ==
    IF exs = <<>> THEN io
    ELSE ExerciseConfigurations(ExerciseConfiguration(io, exs[1], jp), Tail(exs), jp)

\* the files that lie in the directory dirpath itself, and the directories right below it
FilesIn(paths, dirpath) ==
    {k \in paths : /\ StartsWith(k, dirpath \o <<SEP>>)
                   /\ \A i \in (Len(dirpath) + 2)..Len(k) : k[i] # SEP}
DirsIn(paths, dirpath) ==
    {SubSeq(k, 1, i - 1) :
        <<k, i>> \in {<<x, j>> \in paths \X (1..Max({Len(y) : y \in paths} \cup {1})) :
                         /\ StartsWith(x, dirpath \o <<SEP>>)
                         /\ j > Len(dirpath) + 1
                         /\ j <= Len(x)
                         /\ x[j] = SEP
                         /\ \A i \in (Len(dirpath) + 2)..(j - 1) : x[i] # SEP}}

\* the orders a directory listing can give the members of S in
Perms(S) == {p \in [1..Cardinality(S) -> S] : \A i, j \in 1..Cardinality(S) : p[i] = p[j] => i = j}

\* os.walk(dirpath), top down: the files of the directory, then the walk of each directory
\* below it.  The listings come in the order of the file system, which nothing in the
\* program fixes: every order of the files and of the directories is a walk
RECURSIVE WalkOrders(_, _)
WalkOrders(paths, dirpath) ==
    {files \o Concat([i \in 1..Len(dirs) |-> below[dirs[i]]]) :
        files \in Perms(FilesIn(paths, dirpath)),
        dirs \in Perms(DirsIn(paths, dirpath)),
        below \in {w \in [DirsIn(paths, dirpath) ->
                            UNION {WalkOrders(paths, d) : d \in DirsIn(paths, dirpath)}] :
                      \A d \in DirsIn(paths, dirpath) : w[d] \in WalkOrders(paths, d)}}

\* arcdirpath joined with fname: the path without CONF_DIR and the separator
ArcName(path) == SubSeq(path, Len(PathJoin(CONF_DIR, <<>>)) + 1, Len(path))

\* the zip archive of create_configuration: zipf.write(path, arcname) for every file of the
\* walk, in its order
ConfigurationZip(io, exs, walk) ==
    Save(io, CONF_DIR \o <<".", "z", "i", "p">>, "zip", exs,
         TextFile([i \in 1..Len(walk) |-> [file |-> walk[i], arcname |-> ArcName(walk[i])]]))

\* Exercise.load_judge_parameters(commandline_options.configuration)
MainJudgeParameters ==
    /\ pc = "judge_parameters"
    /\ \E r \in {load_judge_parameters(FileSystem(disk, fs), args.configuration)} :
           IF r.err # ""
           THEN /\ pc' = "aborted"
                /\ abort' = r.err
                /\ UNCHANGED judge_parameters
           ELSE /\ pc' = "configuration"
                /\ judge_parameters' = r.params
                /\ UNCHANGED abort
    /\ UNCHANGED <<fs, args, todo, existing_keys, disk, loads, cursor, bundles, separates,
                   written>>
    /\ UNCHANGED <<seg, ld, rc, rd, vr, sm>>

\* create_configuration(exercises)
MainConfiguration ==
    /\ pc = "configuration"
    /\ \E io1 \in {ExerciseConfigurations(Io(disk, RmTree(fs, CONF_DIR), written),
                                          Chain(bundles, separates), judge_parameters)} :
         \E walk \in WalkOrders(FsPaths(io1.fs), CONF_DIR) :
           \E io \in {ConfigurationZip(io1, Chain(bundles, separates), walk)} :
               /\ fs' = io.fs.over
               /\ written' = io.written
    /\ pc' = IF Truthy(args.filled_form) THEN "filled_form" ELSE "done"
    /\ UNCHANGED <<args, todo, existing_keys, disk, loads, cursor, abort, bundles, separates>>
    /\ UNCHANGED <<seg, ld, rc, rd, vr, sm, judge_parameters>>

\* ex.submission_cell_filled().to_ipynb() for every exercise
FilledCells(exs) == [i \in 1..Len(exs) |-> to_ipynb(submission_cell_filled(exs[i]))]

\* create_filled_form(exercises, commandline_options.filled_form)
MainFilledForm ==
    /\ pc = "filled_form"
    /\ \E io \in {Save(Io(disk, fs, written), args.filled_form, "filled_form",
                       Chain(bundles, separates),
                       Notebook(FilledCells(Chain(bundles, separates)),
                                submission_metadata(FilledKeyToVer(Chain(bundles, separates)),
                                                    TRUE)))} :
           /\ fs' = io.fs.over
           /\ written' = io.written
    /\ pc' = "done"
    /\ UNCHANGED <<args, todo, existing_keys, disk, loads, cursor, abort, bundles, separates>>
    /\ UNCHANGED <<seg, ld, rc, rd, vr, sm, judge_parameters>>

\* main between its calls: the loop over the bundles or over the separates is through
MainNext ==
    /\ \/ /\ pc = "bundled"
          /\ cursor > Len(bundles)
          /\ pc' = "single"
       \/ /\ pc = "single"
          /\ cursor > Len(separates)
          /\ pc' = IF Truthy(args.configuration) THEN "judge_parameters"
                   ELSE IF Truthy(args.filled_form) THEN "filled_form" ELSE "done"
    /\ cursor' = 1
    /\ UNCHANGED <<fs, args, todo, existing_keys, disk, loads, abort, bundles, separates,
                   written>>
    /\ UNCHANGED <<seg, ld, rc, rd, vr, sm, judge_parameters>>
----------------------------------------------------------------------------
(* C10 *)

SegIsBlank(c) == Strip(c.source) = <<>>
SegMarkerCount(c) == IF c.cell_type = MARKDOWN THEN Len(ContentTypeMatches(c.source, 1)) ELSE 0
SegIsDelimiter(c) == ~SegIsBlank(c) /\ SegMarkerCount(c) = 1
SegInField(st) == st.current_key # None

\* the group of key k in a result map, and the map after a flush of acc under k
SegFlushed(old, new, k, acc) ==
    /\ DictKeys(new) = DictKeys(old) \cup {k}
    /\ DictGet(new, k) = acc
    /\ \A j \in DictKeys(old) \ {k} : DictGet(new, j) = DictGet(old, j)

C10_Transition ==
    LET s == seg.st
        t == seg'.st
    IN  /\ (seg.status = "loop" /\ seg.i <= Len(seg.raw_cells)) =>
             LET c == seg.raw_cells[seg.i]
             IN  /\ seg'.i = seg.i + 1
                 /\ SegIsBlank(c) => (t = s /\ seg'.status = "loop")
                 /\ (~SegIsBlank(c) /\ SegMarkerCount(c) = 0 /\ ~SegInField(s)) =>
                        seg'.status = "failed"
                 /\ (~SegIsBlank(c) /\ SegMarkerCount(c) = 0 /\ SegInField(s)) =>
                        /\ seg'.status = "loop"
                        /\ t.current_key = s.current_key
                        /\ t.cells = Append(s.cells, c)
                        /\ t.results = s.results
                 /\ (SegIsDelimiter(c) /\ SegInField(s)) =>
                        /\ seg'.status = "loop"
                        /\ t.current_key = ContentTypeMatches(c.source, 1)[1]
                        /\ t.cells = <<>>
                        /\ SegFlushed(s.results, t.results, s.current_key, s.cells)
                 /\ (SegIsDelimiter(c) /\ ~SegInField(s)) =>
                        /\ seg'.status = "loop"
                        /\ t.current_key = ContentTypeMatches(c.source, 1)[1]
                        /\ t.cells = <<>>
                        /\ t.results = s.results
                 /\ (~SegIsBlank(c) /\ SegMarkerCount(c) > 1) => seg'.status = "failed"
        /\ (seg.status = "loop" /\ seg.i > Len(seg.raw_cells)) =>
             /\ seg'.status = "returned"
             /\ SegFlushed(s.results, seg'.results, s.current_key, s.cells)
        /\ seg.status \in {"failed", "returned"} => seg' = seg

C10_NoDelimiterInGroups ==
    /\ \A j \in 1..Len(seg.st.cells) : ~SegIsDelimiter(seg.st.cells[j])
    /\ \A g \in 1..Len(seg.st.results) :
           \A j \in 1..Len(seg.st.results[g].v) : ~SegIsDelimiter(seg.st.results[g].v[j])
    /\ \A g \in 1..Len(seg.results) :
           \A j \in 1..Len(seg.results[g].v) : ~SegIsDelimiter(seg.results[g].v[j])

\* C10: split_cells refines the machine NoField | InField(key): a blank cell changes
\* nothing; a non-blank CODE, RAW or marker-free MARKDOWN cell is fatal in NoField and is
\* appended to the accumulator in InField(k); a MARKDOWN cell with exactly one marker
\* flushes the accumulator under the previous key (if any), moves to InField(name) and
\* is never part of a group; more than one marker is fatal; the end of the input
\* flushes the accumulator under the last key.
C10_SplitRefinesMachine == [][C10_Transition]_vars /\ []C10_NoDelimiterInGroups

\* a run that returned two groups after a blank cell, with content in a group
C10_Witness ==
    /\ seg.status = "returned"
    /\ Len(seg.results) = 2
    /\ \E g \in 1..2 : seg.results[g].v # <<>>
    /\ \E j \in 1..Len(seg.raw_cells) : SegIsBlank(seg.raw_cells[j])

----------------------------------------------------------------------------
(* C3 *)

LdSingleRequired(f) == "SINGLE" \in FieldProperties[f] /\ "OPTIONAL" \notin FieldProperties[f]
LdListOptional(f) == {"LIST", "OPTIONAL"} \subseteq FieldProperties[f]
LdDeclared(f) == ld.choice[f].present
LdGroupLen(f) == Len(ld.choice[f].cells)
\* the position of field f among the items of split_cells
LdItemIndex(f) == CHOOSE j \in 1..Len(ld.items) : ld.items[j].k = FieldKeyName[f]
\* the loop has gone past field f without failing on it
LdPassed(f) ==
    /\ ld.status \in {"fields", "loaded", "failed"}
    /\ LdDeclared(f)
    /\ ld.i > LdItemIndex(f)
LdFailedOn(f, err) ==
    ld.status = "failed" /\ ld.err = err /\ ld.err_field = FieldKeyName[f]
\* the loop stands at field f or has gone past it
LdReached(f) ==
    /\ ld.status \in {"fields", "loaded", "failed"}
    /\ ld.err # "segmentation"
    /\ LdDeclared(f)
    /\ ld.i >= LdItemIndex(f)

LdCardinalityClaim(fields) ==
    /\ \A f \in fields :
        LdSingleRequired(f) =>
            /\ (LdPassed(f) => LdGroupLen(f) = 1)
            /\ (LdReached(f) /\ ld.status = "failed" /\ ld.i = LdItemIndex(f)
                    /\ LdGroupLen(f) \in {0, 2} => LdFailedOn(f, "cardinality"))
            /\ (LdFailedOn(f, "cardinality") => LdGroupLen(f) # 1)
    /\ \A f \in fields :
        (LdListOptional(f) /\ LdDeclared(f) /\ LdGroupLen(f) = 0) =>
            /\ ld.err_field # FieldKeyName[f]
            /\ (LdPassed(f) => ld.kwargs[FieldAttr[f]] = <<>>)

\* C3 as stated, for every field key of the schema: a SINGLE (not OPTIONAL) field with 0
\* or 2 cells makes the load fail and with 1 cell passes the cardinality check; a
\* LIST|OPTIONAL field with 0 cells passes and is stored as the empty list.
C3_Original == LdCardinalityClaim(FieldKey)

\* C3 (amended): the same for every field key that load_exercise validates, that is every
\* field key but WARNING and SYSTEM_TEST_CASES_EXECUTE_CELL, which are skipped before the
\* cardinality check.
C3_CardinalityEnforced == LdCardinalityClaim(FieldKey \ SkippedFields)

\* the load failed on the two cells of SYSTEM_TEST_SETTING after it accepted the one
\* cell of STUDENT_CODE_CELL and stored the empty EXPLANATION group
C3_Witness ==
    /\ LdFailedOn("SYSTEM_TEST_SETTING", "cardinality")
    /\ LdGroupLen("SYSTEM_TEST_SETTING") = 2
    /\ LdPassed("STUDENT_CODE_CELL")
    /\ LdGroupLen("STUDENT_CODE_CELL") = 1
    /\ LdPassed("EXPLANATION")
    /\ ld.kwargs["explanation"] = <<>>

----------------------------------------------------------------------------
(* C4 *)

RcHashRule == [i \in 1..58 |-> HASH]
RcMarker(key) == <<"<", "[", " ">> \o key \o <<" ", "]", ">">>

\* the banner comment for key, line by line, up to the place of the student source
RcBanner(key) ==
    Join(<<RcHashRule,
           <<"#", "#", " ", " ">> \o RcMarker(key) \o <<" ", "U+89E3", "U+7B54", "U+30BB", "U+30EB", " ", "(", "A", "n", "s", "w", "e", "r", " ", "c", "e", "l", "l", ")">>,
           <<"#", "#", " ", " ", "U+3053", "U+306E", "U+30B3", "U+30E1", "U+30F3", "U+30C8", "U+306E", "U+66F8", "U+304D", "U+5909", "U+3048", "U+3092", "U+7981", "U+305A", " ", "(", "N", "e", "v", "e", "r", " ", "e", "d", "i", "t", " ", "t", "h", "i", "s", " ", "c", "o", "m", "m", "e", "n", "t", ")">>,
           RcHashRule,
           <<>>,
           <<>> >>, <<"\n">>)

\* the placeholder comment naming the redirect target, line by line
RcPlaceholder(target) ==
    Join(<<<<"#", " ", "U+3053", "U+306E", "U+30BB", "U+30EB", "U+3067", "U+306F", "U+306A", "U+304F", " ">> \o target \o <<" ", "U+3092", "U+4F7F", "U+3063", "U+3066", "U+304F", "U+3060", "U+3055", "U+3044">>,
           <<"#", " ", "U", "s", "e", " ">> \o target \o <<" ", "i", "n", "s", "t", "e", "a", "d", " ", "o", "f", " ", "t", "h", "i", "s", " ", "c", "e", "l", "l">>>>, <<"\n">>)

\* C4: submission_cell() is a code cell; without a redirect target it is the fixed banner
\* with the marker <[ key ]> followed by the student source unmodified; with a redirect
\* target it is the fixed placeholder naming the target, without the marker and without
\* the student source; the form of a non-redirected exercise without student tests is
\* the content cells followed by that one banner cell.
C4_SubmissionCell ==
    LET ex == rc.ex
        target == submission_redirection(ex)
        student == ex.student_code_cell.source
    IN  /\ rc.status \in {"cell", "form"} =>
            /\ rc.cell.cell_type = CODE
            /\ target = None =>
                /\ rc.cell.source = RcBanner(ex.key) \o student
                /\ Contains(rc.cell.source, RcMarker(ex.key))
            /\ target # None =>
                /\ rc.cell.source = RcPlaceholder(target)
                /\ ~Contains(rc.cell.source, RcMarker(ex.key))
                /\ ~Contains(rc.cell.source, student)
        /\ (rc.status = "form" /\ target = None /\ ex.student_tests = <<>>) =>
            /\ Len(rc.form) = Len(ex.content) + 1
            /\ SubSeq(rc.form, 1, Len(ex.content)) = ex.content
            /\ rc.form[Len(rc.form)] = Cell(CODE, RcBanner(ex.key) \o student)

\* the form of a non-redirected exercise whose student source has braces and blanks
\* around it
C4_Witness ==
    /\ rc.status = "form"
    /\ submission_redirection(rc.ex) = None
    /\ rc.ex.student_tests = <<>>
    /\ rc.ex.student_code_cell.source = <<" ", "x", "{", "c", "o", "n", "t", "e", "n", "t", "}", "\n", "{", "y", "}", "\n", " ">>
    /\ Len(rc.form) = 3

----------------------------------------------------------------------------
(* C6 *)

\* some code cell of the target holds the marker of exactly this key
RdHasBannerOf(key, raw_cells) ==
    \E c \in 1..Len(raw_cells) :
        /\ raw_cells[c].cell_type = CODE
        /\ \E l \in 1..Len(raw_cells[c].source) :
               Contains(raw_cells[c].source[l], <<"<", "[", " ">> \o key \o <<" ", "]", ">">>)

\* C6: for an exercise A redirecting to an existing document D, create_redirect_form
\* succeeds if and only if a code cell of D holds the banner marker of exactly A's key;
\* otherwise it fails with the missing-marker error and D is not rewritten.
C6_RedirectRoundTrip ==
    (rd.status \notin {"idle", "start"} /\ rd.target.exists) =>
        /\ rd.status = "saved" <=> RdHasBannerOf(rd.ex.key, rd.target.cells)
        /\ rd.status # "saved" => (rd.status = "no_answer_cell" /\ rd.after = rd.target)

----------------------------------------------------------------------------
(* C7 *)

VrTriple(ex) == <<ex.content, submission_cell(ex), ex.student_tests>>

\* C7: under hash-based renewal (SHA-1 injective) two records get the same version if and
\* only if their (content, submission_cell, student_tests) are the same; the answer
\* examples, the previous version and the key (but through the submission cell) play no
\* part.
C7_VersionDeterminism ==
    (vr.status = "done" /\ vr.renew_version = "sha1") =>
        (vr.a.version = vr.b.version <=> VrTriple(vr.a) = VrTriple(vr.b))

\* two redirected records of different keys, answer examples and previous versions that
\* got the same version
C7_Witness ==
    /\ vr.status = "done"
    /\ vr.renew_version = "sha1"
    /\ vr.a.version = vr.b.version
    /\ vr.a.key # vr.b.key
    /\ vr.a.answer_examples # vr.b.answer_examples
    /\ vr.saved[1].judge_master[1].version = vr.a.version

----------------------------------------------------------------------------
(* C8 *)

SmIsDecorator(line) == StartsWith(line, <<"@", "j", "u", "d", "g", "e", "_", "u", "t", "i", "l", ".">>)

\* the lines of body at the indices of I, in order
RECURSIVE SmPick(_, _, _)
SmPick(lines, I, j) ==
    IF j > Len(lines) THEN <<>>
    ELSE (IF j \in I THEN <<lines[j]>> ELSE <<>>) \o SmPick(lines, I, j + 1)

\* every non-decorator line of the body
SmAllPlain(body) ==
    LET lines == SplitLines(body)
    IN  SmPick(lines, {j \in 1..Len(lines) : ~SmIsDecorator(lines[j])}, 1)

\* the non-decorator lines that come after the first decorator line of the body
SmPlainAfterFirstDecorator(body) ==
    LET lines == SplitLines(body)
        dec == {j \in 1..Len(lines) : SmIsDecorator(lines[j])}
    IN  SmPick(lines, {j \in 1..Len(lines) : dec # {} /\ j > Min(dec) /\ j \notin dec}, 1)

\* the text of the per-case line lists kept(i), one empty line between consecutive cases
RECURSIVE SmJoined(_, _, _)
SmJoined(cases, Kept(_), i) ==
    IF i > Len(cases) THEN <<>>
    ELSE Kept(cases[i].content)
         \o (IF i < Len(cases) THEN <<<<>>>> ELSE <<>>)
         \o SmJoined(cases, Kept, i + 1)

\* C8 as stated: the summary keeps every non-decorator line of every body in order, with
\* one blank separator line between consecutive cases and none after the last.
C8_Original ==
    sm.status = "returned" =>
        sm.cell = Cell(CODE, Join(SmJoined(sm.cases, SmAllPlain, 1), <<"\n">>))

\* C8 (amended): of each body the summary keeps, in order, the non-decorator lines that
\* follow the first decorator line (the lines before it are dropped, and a body without
\* a decorator line gives no line), with one blank separator line between consecutive
\* cases and none after the last.
C8_Summarized ==
    sm.status = "returned" =>
        sm.cell = Cell(CODE, Join(SmJoined(sm.cases, SmPlainAfterFirstDecorator, 1), <<"\n">>))

\* a summary of two cases, the first with lines before its first decorator line
C8_Witness ==
    /\ sm.status = "returned"
    /\ Len(sm.cases) = 2
    /\ sm.cases[1].content = <<"i", "m", "p", "o", "r", "t", " ", "j", "\n", "@", "j", "u", "d", "g", "e", "_", "u", "t", "i", "l", ".", "a", "\n", "d", "e", "f", " ", "f", "(", ")", ":", "\n", " ", " ", "p", "a", "s", "s", "\n">>
    /\ sm.cases[2].content = <<"@", "j", "u", "d", "g", "e", "_", "u", "t", "i", "l", ".", "a", "\n", "x", "\n", "@", "j", "u", "d", "g", "e", "_", "u", "t", "i", "l", ".", "b", "\n", "y", "\n">>
    /\ sm.cell.source = <<"d", "e", "f", " ", "f", "(", ")", ":", "\n", " ", " ", "p", "a", "s", "s", "\n", "\n", "x", "\n", "y">>


----------------------------------------------------------------------------
(* Claims about a run of main (Spec) *)

\* the keys of the exercises loaded so far, bundles first, as main chains them
LoadedKeys == [i \in 1..Len(Chain(bundles, separates)) |-> Chain(bundles, separates)[i].key]

\* the exercise key of the item load_sources visits next, None for an item that names
\* no master (a directory, a name of a listing that is no master, a file that is no
\* notebook)
NextKey ==
    IF pc # "load" \/ todo = <<>> THEN None
    ELSE IF todo[1].type = "entry" THEN DirEntryKey(Basename(todo[1].dirpath), todo[1].name)
    ELSE IF IsDir(FileSystem(disk, fs), todo[1].name) \/ ~EndsWith(todo[1].name, DOT_IPYNB)
    THEN None
    ELSE SplitExtRoot(Basename(todo[1].name))

C1_KeysDistinct ==
    \A i, j \in 1..Len(LoadedKeys) : i # j => LoadedKeys[i] # LoadedKeys[j]

\* a run that stopped on a key conflict: the item it stopped at is still the next one,
\* master_loader was called for no visit from that one on, and nothing was written
C1_StoppedAtConflict ==
    (pc = "aborted" /\ abort = "key_conflict") =>
        /\ todo # <<>>
        /\ \A i \in 1..Len(loads) : loads[i].visit < cursor
        /\ Len(loads) = Len(LoadedKeys)
        /\ written = <<>>

\* a step of load_sources that meets a key some loaded exercise has: the run aborts, and
\* the step loads nothing
C1_ConflictAborts ==
    (NextKey # None /\ \E i \in 1..Len(LoadedKeys) : LoadedKeys[i] = NextKey) =>
        /\ pc' = "aborted"
        /\ abort' = "key_conflict"
        /\ loads' = loads
        /\ bundles' = bundles
        /\ separates' = separates

\* an aborted run takes no further step
C1_AbortIsFinal == pc # "aborted"

\* C1: load_sources either aborts or returns exercises whose keys are pairwise distinct
\* across all bundles and separates; a step that meets a registered key aborts the run at
\* once, without loading the conflicting document, and nothing is loaded afterwards.
C1_KeyUniqueness ==
    /\ [](C1_KeysDistinct /\ C1_StoppedAtConflict)
    /\ [][C1_ConflictAborts /\ C1_AbortIsFinal]_vars

\* a conflict met after two masters were loaded, with a later source still to visit
C1_Witness ==
    /\ pc = "aborted"
    /\ abort = "key_conflict"
    /\ Len(loads) >= 2
    /\ Len(todo) >= 2
    /\ todo[Len(todo)].type = "path"

\* the rule of the number of cells of a group: one cell for SINGLE, one at least for LIST,
\* one at most for OPTIONAL, and any number for LIST | OPTIONAL
C2_CardinalityBroken(props, n) ==
    \/ "SINGLE" \in props /\ "OPTIONAL" \notin props /\ n # 1
    \/ "LIST" \in props /\ "OPTIONAL" \notin props /\ n = 0
    \/ "OPTIONAL" \in props /\ "LIST" \notin props /\ n > 1

\* the group cells of field key f breaks a rule of the schema: cardinality, cell kind,
\* heading, file-name extraction
C2_GroupBreaks(f, cells) ==
    \/ C2_CardinalityBroken(FieldProperties[f], Len(cells))
    \/ "CODE" \in FieldProperties[f] /\ \E i \in 1..Len(cells) : cells[i].cell_type # CODE
    \/ /\ "MARKDOWN_HEADED" \in FieldProperties[f]
       /\ cells # <<>>
       /\ (cells[1].cell_type = CODE \/ ~HeadingMatch(FirstLine(cells[1])).found)
    \/ /\ "FILE" \in FieldProperties[f]
       /\ \E i \in 1..Len(cells) : ~split_file_code_cell(cells[i]).ok

\* the items s of a master break a structural rule in a field key of F: the segmentation
\* fails, a marker names no field key, or a group of F breaks a rule of its field key
C2_Breaks(s, F) ==
    \/ ~s.ok
    \/ \E i \in 1..Len(s.results) :
           \/ ~IsFieldKeyName(s.results[i].k)
           \/ /\ FieldEnum(s.results[i].k) \in F
              /\ C2_GroupBreaks(FieldEnum(s.results[i].k), s.results[i].v)

\* the masters that lie on some disk, as (path, kind): the document at path is
\* MasterNotebook(path, kind)
C2_Masters == {<<p, k[p]>> : p \in MainMasters, k \in MainKinds}

\* those whose document violates a structural rule of the schema, and those whose document
\* violates one in a field key load_exercise validates
C2_MalformedMasters ==
    {m \in C2_Masters :
        C2_Breaks(split_cells(normalized_cells(MasterNotebook(m[1], m[2]).cells)), FieldKey)}
C2_RejectedMasters ==
    {m \in C2_MalformedMasters :
        C2_Breaks(split_cells(normalized_cells(MasterNotebook(m[1], m[2]).cells)),
                  FieldKey \ SkippedFields)}

\* the master document at path, as it lay on disk before the run, violates a structural
\* rule of the schema
C2_Malformed(path) ==
    path \in MainMasters /\ <<path, disk.kinds[path]>> \in C2_MalformedMasters

\* it violates a structural rule in a field key load_exercise validates
C2_Rejected(path) ==
    path \in MainMasters /\ <<path, disk.kinds[path]>> \in C2_RejectedMasters

\* the errors of the structural rules
C2_Errors == MalformedKinds \cup {"unknown_field"}

\* no file is written from a master of M, and the load of a master of M is the last step
\* of the run: it aborts on a structural rule, and at that moment nothing is written
C2_NoOutput(M(_)) ==
    /\ \A i \in 1..Len(written) : \A p \in written[i].masters : ~M(p)
    /\ \A i \in 1..Len(loads) :
           M(loads[i].path) =>
               /\ i = Len(loads)
               /\ pc = "aborted"
               /\ abort \in C2_Errors
               /\ written = <<>>
               /\ fs = <<>>

\* C2 (as claimed): in a run of main no file is ever written that derives from a master
\* that violates a structural rule (segmentation, cardinality, cell kind, heading,
\* file-name extraction); the run aborts at the load of such a master, and at that moment
\* it has written nothing.
C2_Original == C2_NoOutput(C2_Malformed)

\* C2 (amended): the same for a master that violates a structural rule in a field key
\* other than WARNING and SYSTEM_TEST_CASES_EXECUTE_CELL, the two field keys load_exercise
\* skips: no file is ever written that derives from it, the run aborts at its load with the
\* error of a structural rule, and at that moment it has written nothing at all.
C2_AbortBeforeOutput == C2_NoOutput(C2_Rejected)

\* a malformed master met after another master was loaded
C2_Witness ==
    /\ pc = "aborted"
    /\ abort \in C2_Errors
    /\ Len(loads) >= 2
    /\ C2_Rejected(loads[Len(loads)].path)

\* the forms create_bundled_forms and create_single_forms have written
C5_Forms ==
    {i \in 1..Len(written) : written[i].site \in {"bundled_form", "single_form", "pseudo_form"}}

\* the version map a notebook carries, as a set of (key, version); empty without one
C5_VersionMap(file) ==
    IF file.metadata.judge_submission = <<>> THEN {}
    ELSE {<<file.metadata.judge_submission[1].exercises[j].k,
            file.metadata.judge_submission[1].exercises[j].v>> :
              j \in 1..Len(file.metadata.judge_submission[1].exercises)}

\* the exercises a written file is made from
C5_Scope(w) ==
    {i \in 1..Len(Chain(bundles, separates)) : MasterPath(Chain(bundles, separates)[i]) \in w.masters}

\* the version the cleaned master of an exercise holds on disk
C5_CurrentVersion(ex) ==
    load_cells(FileSystem(disk, fs), MasterPath(ex)).metadata.judge_master[1].version

\* the pairs (key, current version) of the exercises in the scope of the written file w
\* that do not redirect
C5_Expected(w) ==
    {<<Chain(bundles, separates)[e].key, C5_CurrentVersion(Chain(bundles, separates)[e])>> :
        e \in {x \in C5_Scope(w) :
                  submission_redirection(Chain(bundles, separates)[x]) = None}}

\* C5 (as claimed): every form written by create_bundled_forms or create_single_forms
\* carries exactly the pairs (key, current version) of the exercises in its scope that do
\* not redirect; no redirecting exercise appears in it.  The form is the file the two
\* functions leave at its path.
C5_VersionMapExact ==
    \A i \in C5_Forms :
        C5_VersionMap(load_cells(FileSystem(disk, fs), written[i].path))
            = C5_Expected(written[i])

\* the exercises of a bundle in ascending order of their keys
RECURSIVE C9_SortedByKey(_)
C9_SortedByKey(exs) ==
    IF exs = <<>> THEN <<>>
    ELSE LET m == CHOOSE i \in 1..Len(exs) : \A j \in 1..Len(exs) : ~StrLess(exs[j].key, exs[i].key)
         IN  <<exs[m]>> \o C9_SortedByKey(SubSeq(exs, 1, m - 1) \o SubSeq(exs, m + 1, Len(exs)))

\* the introduction cells, or the synthetic heading named after the directory
C9_Intro(dirpath) ==
    IF disk.intro /\ dirpath = <<"d">> THEN normalized_cells(IntroNotebook.cells)
    ELSE <<Cell(MARKDOWN, <<"#", " ">> \o Basename(dirpath))>>

\* C9 (as claimed): the bundled answer key and the bundled form of every bundle are the
\* introduction followed by the pieces of the exercises in ascending order of their keys.
C9_KeySortedBundles ==
    \A i \in 1..Len(written) :
        /\ written[i].site = "bundled_answer" =>
               \E b \in 1..Len(bundles) :
                   /\ written[i].path = PathJoin(bundles[b].k, <<"a", "n", "s", "_">> \o Basename(bundles[b].k) \o DOT_IPYNB)
                   /\ written[i].file.cells =
                          ToIpynbAll(C9_Intro(bundles[b].k) \o AnswerBodies(C9_SortedByKey(bundles[b].v)))
        /\ written[i].site = "bundled_form" =>
               \E b \in 1..Len(bundles) :
                   /\ written[i].path = PathJoin(bundles[b].k, <<"f", "o", "r", "m", "_">> \o Basename(bundles[b].k) \o DOT_IPYNB)
                   /\ written[i].file.cells =
                          ToIpynbAll(C9_Intro(bundles[b].k) \o FormBodies(C9_SortedByKey(bundles[b].v)))

\* what holds instead: the pieces follow the order of the file names of the masters
C9_NameSortedBundles ==
    \A i \in 1..Len(written) :
        /\ written[i].site = "bundled_answer" =>
               \E b \in 1..Len(bundles) :
                   written[i].file.cells =
                       ToIpynbAll(C9_Intro(bundles[b].k) \o AnswerBodies(bundles[b].v))
        /\ written[i].site = "bundled_form" =>
               \E b \in 1..Len(bundles) :
                   /\ written[i].file.cells =
                          ToIpynbAll(C9_Intro(bundles[b].k) \o FormBodies(bundles[b].v))
                   /\ \A x, y \in 1..Len(bundles[b].v) :
                          x < y => StrLess(bundles[b].v[x].key \o DOT_IPYNB,
                                           bundles[b].v[y].key \o DOT_IPYNB)

----------------------------------------------------------------------------
(* C11 *)

LdHeadedFields == {f \in FieldKey : "MARKDOWN_HEADED" \in FieldProperties[f]}
\* the first line of the trimmed text of the first cell of the group of f
LdFirstTrimmedLine(f) == SplitLines(Strip(ld.choice[f].cells[1].source))[1]
\* the first position of line, from position from on, that holds no character of S
LdSkip(line, from, S) == Min({k \in from..(Len(line) + 1) : k = Len(line) + 1 \/ line[k] \notin S})
\* line is a run of hashes, a run of blanks, and the rest
LdIsHeadingLine(line) ==
    /\ LdSkip(line, 1, {HASH}) > 1
    /\ LdSkip(line, LdSkip(line, 1, {HASH}), Whitespace) > LdSkip(line, 1, {HASH})
\* the rest of a heading line
LdHeadingText(line) ==
    SubSeq(line, LdSkip(line, LdSkip(line, 1, {HASH}), Whitespace), Len(line))
\* the loop has gone past f, or has failed on it
LdDecided(f) == LdPassed(f) \/ (ld.status = "failed" /\ ld.err_field = FieldKeyName[f])

LdHeadingClaim(kinds) ==
    \A f \in LdHeadedFields :
        (LdDeclared(f) /\ LdGroupLen(f) > 0 /\ LdDecided(f)) =>
            /\ LdPassed(f) <=> /\ ld.choice[f].cells[1].cell_type \in kinds
                               /\ LdIsHeadingLine(LdFirstTrimmedLine(f))
            /\ (f = "CONTENT" /\ LdPassed(f)) =>
                   ld.kwargs["title"] = LdHeadingText(LdFirstTrimmedLine(f))
            /\ (f = "CONTENT" /\ ld.status = "loaded") =>
                   ld.exercise["title"] = LdHeadingText(LdFirstTrimmedLine(f))

\* C11 (as claimed): a non-empty group of a MARKDOWN_HEADED field (CONTENT, EXPLANATION) passes
\* the validation of load_exercise if and only if its first cell is a non-code cell
\* (MARKDOWN or RAW) whose first trimmed line fully matches the heading pattern; the title
\* of the record is the captured heading text of the first line of CONTENT.
C11_Original == LdHeadingClaim({MARKDOWN, RAW})

\* the field keys whose groups the record is built from
LdRecordFields == FieldKey \ SkippedFields
LdAllDeclared == \A f \in LdRecordFields : LdDeclared(f)
\* the loop over the groups is through without an error
LdLoopDone == ld.status = "fields" /\ ld.i > Len(ld.items)

\* C14: load_exercise returns an Exercise record only for a document that declares every
\* one of CONTENT, STUDENT_CODE_CELL, EXPLANATION, ANSWER_EXAMPLES, STUDENT_TESTS,
\* SYSTEM_TEST_CASES and SYSTEM_TEST_SETTING; with one of them absent, the OPTIONAL ones
\* included, the load fails when the record is built, and the absence of WARNING or
\* SYSTEM_TEST_CASES_EXECUTE_CELL makes no load fail.
C14_AbsentFieldIsFatal ==
    /\ [](ld.status = "loaded" => LdAllDeclared)
    /\ []((ld.status = "failed" /\ ld.err = "missing_field") => ~LdAllDeclared)
    /\ [][LdLoopDone =>
            /\ ~LdAllDeclared => (ld'.status = "failed" /\ ld'.err = "missing_field")
            /\ LdAllDeclared => ld'.status = "loaded"]_vars

\* the load failed on building the record of a document that declares every field but
\* the OPTIONAL field EXPLANATION (and neither WARNING nor the execute cell)
C14_Witness ==
    /\ ld.status = "failed"
    /\ ld.err = "missing_field"
    /\ \A f \in FieldKey : LdDeclared(f) <=> f \in LdRecordFields \ {"EXPLANATION"}

----------------------------------------------------------------------------
(* C13 *)

\* the places of the delimiter cells of the input, and the field name each declares
SegDelimiterPlaces == {j \in 1..Len(seg.raw_cells) : SegIsDelimiter(seg.raw_cells[j])}
SegNameAt(j) == ContentTypeMatches(seg.raw_cells[j].source, 1)[1]
SegDeclaredOnce ==
    \A i, j \in SegDelimiterPlaces : SegNameAt(i) = SegNameAt(j) => i = j
\* the keys of the output in the order of the entries
SegResultKeys == [g \in 1..Len(seg.results) |-> seg.results[g].k]
\* the groups of the output, one after the other from entry g on
RECURSIVE SegGroupsFrom(_)
SegGroupsFrom(g) ==
    IF g > Len(seg.results) THEN <<>> ELSE seg.results[g].v \o SegGroupsFrom(g + 1)
\* the field names in the order of their delimiter cells, from place j on
RECURSIVE SegNamesFrom(_)
SegNamesFrom(j) ==
    IF j > Len(seg.raw_cells) THEN <<>>
    ELSE (IF j \in SegDelimiterPlaces THEN <<SegNameAt(j)>> ELSE <<>>) \o SegNamesFrom(j + 1)
SegPlain(c) == ~SegIsBlank(c) /\ ~SegIsDelimiter(c)
\* the non-blank cells between the delimiter at place j and the next delimiter
SegCellsAfter(j) ==
    SelectSeq(SubSeq(seg.raw_cells, j + 1,
                     Min({k \in (j + 1)..(Len(seg.raw_cells) + 1) :
                             k = Len(seg.raw_cells) + 1 \/ k \in SegDelimiterPlaces}) - 1),
              LAMBDA c : ~SegIsBlank(c))
\* the last place where the name of place j is declared
SegLastPlace(j) == Max({i \in SegDelimiterPlaces : SegNameAt(i) = SegNameAt(j)})

\* C13: when split_cells succeeds on cells in which every field name is declared by at most
\* one delimiter cell, the groups of the output, concatenated in the order of declaration,
\* are the input without its blank cells and delimiter cells; when a field name is declared
\* by two delimiter cells, the output has one entry for the name, which holds only the cells
\* that follow the last declaration, and the call succeeds.
C13_GroupsPartitionInput ==
    seg.status = "returned" =>
        /\ (SegDeclaredOnce /\ SegDelimiterPlaces # {}) => SegResultKeys = SegNamesFrom(1)
        /\ SegDeclaredOnce => SegGroupsFrom(1) = SelectSeq(seg.raw_cells, SegPlain)
        /\ \A j \in SegDelimiterPlaces :
               /\ Cardinality({g \in 1..Len(seg.results) : seg.results[g].k = SegNameAt(j)}) = 1
               /\ DictGet(seg.results, SegNameAt(j)) = SegCellsAfter(SegLastPlace(j))

\* split_cells returned one entry for the name A declared twice: the heading cell after the
\* first declaration is dropped, the code cell after the second is the group
C13_Witness ==
    /\ seg.status = "returned"
    /\ ~SegDeclaredOnce
    /\ Len(seg.raw_cells) = 4
    /\ SegCellsAfter(1) = <<seg.raw_cells[2]>>
    /\ seg.raw_cells[2] # seg.raw_cells[4]
    /\ Len(seg.results) = 1
    /\ seg.results[1].v = <<seg.raw_cells[4]>>

----------------------------------------------------------------------------
(* C12 *)

\* the version map of a document, empty for a document without a judge_submission block
RdVersionMap(nb) ==
    IF nb.metadata.judge_submission = <<>> THEN <<>>
    ELSE nb.metadata.judge_submission[1].exercises

\* C12: create_redirect_form, when it succeeds for exercise A on target D, leaves the cells
\* of D as they were and replaces the whole metadata of D by a submission metadata whose
\* version map is exactly {A.key: A.version}; what the version map of D held before (its
\* own exercises, or an exercise that redirected to D earlier) is not kept, so after a
\* sequence of renderings onto D the map holds only the exercise rendered last.
C12_RedirectReplacesMetadata ==
    rd.status = "saved" =>
        /\ rd.after.exists
        /\ rd.after.cells = rd.target.cells
        /\ rd.after.cells = rd.first.cells
        /\ rd.after.metadata.judge_master = <<>>
        /\ Len(rd.after.metadata.judge_submission) = 1
        /\ rd.after.metadata.judge_submission[1].extraction = TRUE
        /\ RdVersionMap(rd.after) = <<[k |-> rd.ex.key, v |-> rd.ex.version]>>

\* two exercises were rendered one after the other onto a target that holds the banner of
\* each and had a version map of its own: the map holds the second exercise only
C12_Witness ==
    /\ rd.status = "saved"
    /\ rd.calls = 2
    /\ RdHasBannerOf(<<"d", "-", "1">>, rd.first.cells)
    /\ RdHasBannerOf(<<"d", ".", "1">>, rd.first.cells)
    /\ RdVersionMap(rd.first) = <<[k |-> <<"d", "-", "0">>, v |-> LiteralVersion("v0")]>>
    /\ RdVersionMap(rd.target) # RdVersionMap(rd.first)
    /\ DictKeys(RdVersionMap(rd.target)) # {rd.ex.key}
    /\ DictKeys(RdVersionMap(rd.after)) = {rd.ex.key}
----------------------------------------------------------------------------
(* Specifications *)

LdIdle == [status |-> "idle"]
RcIdle == [status |-> "idle"]
RdIdle == [status |-> "idle"]
VrIdle == [status |-> "idle"]
SmIdle == [status |-> "idle"]

MainIdle ==
    /\ pc = "idle"
    /\ fs = <<>>
    /\ args = <<>>
    /\ todo = <<>>
    /\ existing_keys = <<>>
    /\ disk = <<>>
    /\ loads = <<>>
    /\ cursor = 0
    /\ abort = ""
    /\ bundles = <<>>
    /\ separates = <<>>
    /\ written = <<>>
    /\ judge_parameters = <<>>

InitSplit ==
    /\ seg \in {[raw_cells |-> d, i |-> 1, st |-> SplitInit, status |-> "loop", results |-> <<>>] :
                    d \in SegDocuments}
    /\ ld = LdIdle /\ rc = RcIdle /\ rd = RdIdle /\ vr = VrIdle /\ sm = SmIdle
    /\ MainIdle

NextSplit == SegStep \/ SegReturn

SpecSplit == InitSplit /\ [][NextSplit]_vars

InitLoadEx ==
    /\ ld \in {LdStart(c) : c \in LdChoices}
    /\ seg = SegIdle /\ rc = RcIdle /\ rd = RdIdle /\ vr = VrIdle /\ sm = SmIdle
    /\ MainIdle

NextLoadEx == LdSplit \/ LdField \/ LdConstruct

SpecLoadEx == InitLoadEx /\ [][NextLoadEx]_vars

InitCell ==
    /\ rc \in {[status |-> "start", ex |-> e, cell |-> Cell(CODE, <<>>), form |-> <<>>] :
                   e \in RcExercises}
    /\ seg = SegIdle /\ ld = LdIdle /\ rd = RdIdle /\ vr = VrIdle /\ sm = SmIdle
    /\ MainIdle

NextCell == RcSubmissionCell \/ RcFormCells

SpecCell == InitCell /\ [][NextCell]_vars

InitVersion ==
    /\ vr \in {[status |-> "start", a |-> a, b |-> b, renew_version |-> r, saved |-> <<>>] :
                   a \in VrExercises, b \in VrExercises, r \in VrRenewOptions}
    /\ seg = SegIdle /\ ld = LdIdle /\ rc = RcIdle /\ rd = RdIdle /\ sm = SmIdle
    /\ MainIdle

NextVersion == VrRenewA \/ VrRenewB

SpecVersion == InitVersion /\ [][NextVersion]_vars

InitSummarize ==
    /\ sm \in {[status |-> "loop", cases |-> c, i |-> 1, contents |-> <<>>,
                 cell |-> Cell(CODE, <<>>)] : c \in SmCaseLists}
    /\ seg = SegIdle /\ ld = LdIdle /\ rc = RcIdle /\ rd = RdIdle /\ vr = VrIdle
    /\ MainIdle

NextSummarize == SmCase \/ SmReturn

SpecSummarize == InitSummarize /\ [][NextSummarize]_vars

InitRedirect ==
    /\ rd \in {[status |-> "start", ex |-> b[1], target |-> t, after |-> t, first |-> t,
                 todo |-> b, calls |-> 0] :
                   b \in RdBundles, t \in RdTargets}
    /\ seg = SegIdle /\ ld = LdIdle /\ rc = RcIdle /\ vr = VrIdle /\ sm = SmIdle
    /\ MainIdle

NextRedirect == RdCreateRedirectForm

SpecRedirect == InitRedirect /\ [][NextRedirect]_vars

----------------------------------------------------------------------------
(* Spec: a run of main *)

DEFAULT_FILLED_FORM == <<"f", "o", "r", "m", "_", "f", "i", "l", "l", "e", "d", "_", "a", "l", "l", ".", "i", "p", "y", "n", "b">>

\* the options besides -s: none, -n -c judge_env.json -ff, and -n v9 -ff
UsualOptions ==
    {[renew_version |-> "none", configuration |-> None, filled_form |-> None],
     [renew_version |-> "sha1", configuration |-> JUDGE_ENV,
      filled_form |-> DEFAULT_FILLED_FORM],
     [renew_version |-> "v9", configuration |-> None, filled_form |-> DEFAULT_FILLED_FORM]}

\* -c '' -ff '', -c with a path that names no file, -c with a file without 'override'
RareOptions ==
    {[renew_version |-> "none", configuration |-> <<>>, filled_form |-> <<>>],
     [renew_version |-> "none", configuration |-> <<"m", "i", "s", "s", "i", "n", "g", ".", "j", "s", "o", "n">>,
      filled_form |-> DEFAULT_FILLED_FORM],
     [renew_version |-> "none", configuration |-> JUDGE_ENV_PARTIAL, filled_form |-> None]}

MainOptions == UsualOptions \cup RareOptions

\* the rare options count among the deviations of a run, as a deviating master does
Init ==
    /\ pc = "start"
    /\ args \in MainOptions
    /\ disk \in Disks
    /\ DiskDeviations(disk) + (IF args \in RareOptions THEN 1 ELSE 0) <= MaxDeviating
    /\ fs = <<>>
    /\ \E srcs \in SourceLists : todo = [i \in 1..Len(srcs) |-> PathItem(srcs[i])]
    /\ existing_keys = <<>>
    /\ loads = <<>>
    /\ cursor = 0
    /\ abort = ""
    /\ bundles = <<>>
    /\ separates = <<>>
    /\ written = <<>>
    /\ judge_parameters = None
    /\ seg = SegIdle /\ ld = LdIdle /\ rc = RcIdle /\ rd = RdIdle /\ vr = VrIdle /\ sm = SmIdle

\* main calls load_sources(commandline_options.source), todo holding the sources as they
\* were named: sorted(source_paths)
MainLoadSources ==
    /\ pc = "start"
    /\ pc' = "load"
    /\ todo' = LET paths == Sorted([i \in 1..Len(todo) |-> todo[i].name])
               IN  [i \in 1..Len(paths) |-> PathItem(paths[i])]
    /\ UNCHANGED <<fs, args, existing_keys, disk, loads, cursor, abort, bundles, separates,
                   written>>
    /\ UNCHANGED <<seg, ld, rc, rd, vr, sm, judge_parameters>>

Next ==
    \/ MainLoadSources
    \/ MainLoadDir
    \/ MainLoadEntry
    \/ MainLoadFile
    \/ MainLoadReturn
    \/ MainCleanup
    \/ MainBundledForms
    \/ MainSingleForms
    \/ MainJudgeParameters
    \/ MainConfiguration
    \/ MainFilledForm
    \/ MainNext

Spec == Init /\ [][Next]_vars
====
